---- MODULE Spec2Model ----
(***************************************************************************)
(* Hybrid bid-document analysis (regex sweep + semantic oracle + synthesis) *)
(* of soc_restruct, modelled from src/unnamed/part_001 (the current         *)
(* services/hybridAnalysis module).                                         *)
(*                                                                          *)
(* Strings on which the code works character by character (trim,            *)
(* toLowerCase, replace(/\s+/g,''), substring, includes) are sequences of   *)
(* one-character strings.  A CJK character is written as one upper-case     *)
(* pinyin token: "WU" is the character of '无', <<"ZAN","WU">> is '暂无',   *)
(* <<"WEI","SHI","BIE">> is '未识别'.  null/undefined of a string-typed     *)
(* value is the sequence NULL, whose only element is not a character.       *)
(* Strings that the code only copies or tests for truthiness are TLA+       *)
(* strings; there the absent value is UNDEFINED and '' is EMPTY.            *)
(***************************************************************************)
EXTENDS Integers, Sequences, FiniteSets, TLC

VARIABLES
    regexValue,     \* createConflictField: parameter regexValue
    aiValue,        \* createConflictField: parameter aiValue
    cfPc,           \* "call" before createConflictField ran, "returned" after
    cfField         \* the ConflictField it returned

cfVars == <<regexValue, aiValue, cfPc, cfField>>

VARIABLES
    doc,                \* analyzeBidDocument: the ParsedDocument
    abortedAt,          \* "never" while signal.aborted is false, else the
                        \* phase of the run in which abort() was called
    pc,                 \* "idle", "fetch" (await fetch), "json" (await
                        \* response.json()), "done" (promise settled)
    rawRiskCandidates,  \* result of step A
    regexInfo,          \* result of step B
    htmlSlices,         \* result of step C
    transport,          \* what the transport delivered for step D
    aiResult,           \* completion of performAIAnalysis
    synth,              \* completion of synthesizeResults (step E)
    outcome             \* settlement of the promise of analyzeBidDocument

runVars ==
    <<doc, abortedAt, pc, rawRiskCandidates, regexInfo, htmlSlices,
      transport, aiResult, synth, outcome>>

VARIABLES
    keyInfo,        \* App: the keyInfo state (KeyInformation | null)
    expanded,       \* ConflictFieldDisplay: the expanded state, per field
    lastResolve     \* the last call of handleConflictResolve: its arguments
                    \* and the keyInfo it found

appVars == <<keyInfo, expanded, lastResolve>>

VARIABLES
    bodyChildren,       \* extractPerfectStructure: Array.from(body.children)
    activeChapterType,  \* the type detectAndSelectChapterType resolved with
                        \* and the answer to window.prompt it was given
    parsed              \* the ParsedDocument it resolved with

structVars == <<bodyChildren, activeChapterType, parsed>>

VARIABLES
    tables,         \* extractFromTable: the tables of rawHtml, each the rows
                    \* of the inner markup of its cells
    tableValue      \* the value extractFromTable returned

tableVars == <<tables, tableValue>>

VARIABLES
    riskDoc,        \* extractRiskCandidates: the chapters of the document
    candidatesA     \* the RawRiskCandidate[] it returned

riskVars == <<riskDoc, candidatesA>>

VARIABLES
    state,               \* App: the state state (AppState)
    parsing,             \* the documents of the pending parseDocument promises
    appDoc,              \* App: the doc state (ParsedDocument | null)
    analysisState,       \* App: the analysisState state
    keyInfoState,        \* App: the keyInfo state, by the run that made it
    showAnalysisPanel,   \* App: the showAnalysisPanel state
    abortControllerRef,  \* abortControllerRef.current: the run whose
                         \* AbortController it holds, or NoController
    abortedSignals,      \* the runs whose signal.aborted is true
    previousKeyInfoRef,  \* previousKeyInfoRef.current
    localStorage,        \* the analysis_cache_ entries, by fingerprint
    runs,                \* the calls of analyzeBidDocument made so far
    cacheLog,            \* the cache reads and writes of the runs, in order
    lastCall,            \* the call of handleDeepAnalysis made by the last
                         \* step, if any: the runs in flight it found and
                         \* whether it started a run
    shownAtStart,        \* the keyInfo state when the last run was started
    lastCancel           \* the call of cancelDeepAnalysis made by the last
                         \* step, if any: the run cancelled, the keyInfo
                         \* state when that run was started and the keyInfo
                         \* set by the call

analysisVars ==
    <<state, parsing, appDoc, analysisState, keyInfoState, showAnalysisPanel,
      abortControllerRef, abortedSignals, previousKeyInfoRef, localStorage,
      runs, cacheLog, lastCall, shownAtStart, lastCancel>>

vars == <<cfVars, runVars, appVars, structVars, tableVars, riskVars, analysisVars>>

----------------------------------------------------------------------------
(* Bounds *)

\* the greatest number of cells in a row of a table
MaxCols == 2

\* the greatest number of clauses in a chapter
MaxClauses == 2

\* the greatest number of headings of one chapter type in a document
MaxOccurrences == 4

\* the greatest number of analysis runs started in a session
MaxRuns == 2

MaxValueLen == 2        \* longest enumerated source value, in characters

MaxRaw == 21            \* longest list of raw risk candidates of step A

----------------------------------------------------------------------------
(* JavaScript string primitives *)

NULL == <<"<null>">>

WhitespaceChars == {" ", "\t", "\n", "\r"}

Alphabet == {" ", "a", "A", "b"}

IsWhitespace(c) == c \in WhitespaceChars

LowerChar(c) ==
    CASE c = "A" -> "a"
      [] c = "B" -> "b"
      [] c = "N" -> "n"
      [] c = "U" -> "u"
      [] c = "L" -> "l"
      [] OTHER -> c

toLowerCase(s) == [i \in 1..Len(s) |-> LowerChar(s[i])]

RECURSIVE trimStart(_)
trimStart(s) ==
    IF s # <<>> /\ IsWhitespace(Head(s)) THEN trimStart(Tail(s)) ELSE s

RECURSIVE trimEnd(_)
trimEnd(s) ==
    IF s # <<>> /\ IsWhitespace(s[Len(s)])
    THEN trimEnd(SubSeq(s, 1, Len(s) - 1))
    ELSE s

trim(s) == trimEnd(trimStart(s))

\* s.replace(/\s+/g, '')
removeWhitespace(s) == SelectSeq(s, LAMBDA c : ~IsWhitespace(c))

\* JavaScript truthiness of a string | null | undefined
Truthy(v) == v # NULL /\ v # <<>>

----------------------------------------------------------------------------
(* createConflictField *)

UNRECOGNIZED == <<"WEI", "SHI", "BIE">>

REGEX_SOURCE == "Regex"

AI_SOURCE == "AI"

cleanValue(v) ==
    IF ~Truthy(v) THEN NULL
    ELSE LET trimmed == trim(v)
         IN  IF \/ trimmed = <<>>
                \/ toLowerCase(trimmed) = <<"n", "u", "l", "l">>
                \/ trimmed = <<"WU">>
                \/ trimmed = <<"ZAN", "WU">>
             THEN NULL
             ELSE trimmed

candidates_noDedup(cleanRegex, cleanAI, regexSource, aiSource) ==
    (IF Truthy(cleanRegex)
     THEN <<[value |-> cleanRegex, source |-> regexSource]>>
     ELSE <<>>)
    \o
    (IF Truthy(cleanAI)
     THEN <<[value |-> cleanAI, source |-> aiSource]>>
     ELSE <<>>)

\* the candidate list: regex first, the oracle value only when it differs
\* from the cleaned regex value
candidates(cleanRegex, cleanAI, regexSource, aiSource) ==
    (IF Truthy(cleanRegex)
     THEN <<[value |-> cleanRegex, source |-> regexSource]>>
     ELSE <<>>)
    \o
    (IF Truthy(cleanAI) /\ cleanAI # cleanRegex
     THEN <<[value |-> cleanAI, source |-> aiSource]>>
     ELSE <<>>)

\* cleanX?.replace(/\s+/g, '').toLowerCase() || ''
normalized(clean) ==
    IF clean # NULL THEN toLowerCase(removeWhitespace(clean)) ELSE <<>>

isConflict_exactCompare(cleanRegex, cleanAI) ==
    Truthy(cleanRegex) /\ Truthy(cleanAI) /\ cleanRegex # cleanAI

isConflict(cleanRegex, cleanAI) ==
    Truthy(cleanRegex) /\ Truthy(cleanAI)
        /\ normalized(cleanRegex) # normalized(cleanAI)

finalValue_aiFirst(cleanRegex, cleanAI) ==
    IF Truthy(cleanAI) THEN cleanAI
    ELSE IF Truthy(cleanRegex) THEN cleanRegex
    ELSE UNRECOGNIZED

\* cleanRegex || cleanAI || UNRECOGNIZED
finalValue(cleanRegex, cleanAI) ==
    IF Truthy(cleanRegex) THEN cleanRegex
    ELSE IF Truthy(cleanAI) THEN cleanAI
    ELSE UNRECOGNIZED

createConflictField(rv, av, regexSource, aiSource) ==
    LET cleanRegex == cleanValue(rv)
        cleanAI == cleanValue(av)
    IN  [value |-> finalValue(cleanRegex, cleanAI),
         isConflict |-> isConflict(cleanRegex, cleanAI),
         candidates |-> candidates(cleanRegex, cleanAI,
                                   regexSource, aiSource)]

\* cfField before createConflictField has returned
NoField == [value |-> NULL, isConflict |-> FALSE, candidates |-> <<>>]

----------------------------------------------------------------------------
(* JavaScript objects of the oracle reply *)

\* A parsed JSON object is a function from the names of the fields it
\* carries to their values; an omitted field (or one that is null) is not in
\* its domain.  UNDEFINED is what reading such a field of copied-only type
\* gives, NULL what reading one of character-sequence type gives.
UNDEFINED == "<undefined>"

EMPTY == ""

HasField(o, f) == f \in DOMAIN o

Prop(o, f) == IF HasField(o, f) THEN o[f] ELSE UNDEFINED

PropChars(o, f) == IF HasField(o, f) THEN o[f] ELSE NULL

\* truthiness of a copied-only string
TruthyAtom(v) == v # UNDEFINED /\ v # EMPTY

\* performAIAnalysis returned null
AI_NULL == [isNull |-> TRUE]

\* haystack.includes(needle)
includes(haystack, needle) ==
    \E i \in 1..(Len(haystack) + 1) :
        /\ i + Len(needle) - 1 <= Len(haystack)
        /\ SubSeq(haystack, i, i + Len(needle) - 1) = needle

\* s.substring(0, n)
substring0(s, n) == SubSeq(s, 1, IF Len(s) < n THEN Len(s) ELSE n)

----------------------------------------------------------------------------
(* Step C: extractHtmlSlices, and findChapterByTitle *)

\* the characters of 一-龥 that occur in the modelled titles
ChineseNumerals ==
    {"CN1", "CN2", "CN3", "CN4", "CN5", "CN6", "CN7", "CN8", "CN9", "CN10"}

Digits == {"0", "1", "2", "3", "4", "5", "6", "7", "8", "9"}

UnitChars == {"ZHANG", "JIE", "PIAN", "BU"}

CJKChars ==
    ChineseNumerals \cup UnitChars \cup
    {"DI", "PING", "FEN", "SHEN", "DA", "BIAO", "JI", "SHU", "YAO", "QIU",
     "XU", "GUI", "GE", "CAN", "SHU4", "SHE", "BEI", "PEI", "ZHI", "HUO",
     "WU4", "TOU", "WEN", "JIAN", "SHI4", "XIANG", "YING", "ZU", "CHENG",
     "DE", "BIAN", "ZHI4", "HE", "TONG", "XIE", "YI4", "FAN", "BEN", "CAO",
     "AN", "CAI", "GOU", "ZONG", "JIA", "FENG", "MIAN", "QIAN", "YAN",
     "ZHAO", "GONG", "GAO", "BAN", "FA", "WU", "ZAN", "WEI", "SHI", "BIE"}

CHAPTER_KEYWORDS ==
    [scoring |-> << <<"PING", "FEN">>, <<"PING", "SHEN">>, <<"DA", "FEN">>,
                    <<"PING", "BIAO">> >>,
     technical |-> << <<"JI", "SHU", "YAO", "QIU">>,
                      <<"JI", "SHU", "XU", "QIU">>,
                      <<"JI", "SHU", "GUI", "GE">>,
                      <<"JI", "SHU", "CAN", "SHU4">>,
                      <<"SHE", "BEI", "PEI", "ZHI">>,
                      <<"HUO", "WU4", "XU", "QIU">> >>,
     format |-> << <<"TOU", "BIAO", "WEN", "JIAN", "GE", "SHI4">>,
                   <<"XIANG", "YING", "WEN", "JIAN", "GE", "SHI4">>,
                   <<"WEN", "JIAN", "ZU", "CHENG">>,
                   <<"TOU", "BIAO", "WEN", "JIAN", "DE", "ZU", "CHENG">>,
                   <<"XIANG", "YING", "WEN", "JIAN", "ZU", "CHENG">>,
                   <<"TOU", "BIAO", "WEN", "JIAN", "BIAN", "ZHI4">> >>]

EXCLUDE_KEYWORDS ==
    [scoring |-> <<>>,
     technical |-> << <<"HE", "TONG">>, <<"XIE", "YI4">> >>,
     format |-> << <<"HE", "TONG">>, <<"XIE", "YI4">>, <<"FAN", "BEN">>,
                   <<"CAO", "AN">> >>]

Roles == {"scoring", "technical", "format"}

\* s.match(/[一-龥]{2,}/g) || []: the maximal runs of at least two
\* CJK characters, left to right
RECURSIVE coreWordsFrom(_, _, _)
coreWordsFrom(s, i, run) ==
    IF i > Len(s)
    THEN IF Len(run) >= 2 THEN <<run>> ELSE <<>>
    ELSE IF s[i] \in CJKChars
         THEN coreWordsFrom(s, i + 1, Append(run, s[i]))
         ELSE (IF Len(run) >= 2 THEN <<run>> ELSE <<>>)
                  \o coreWordsFrom(s, i + 1, <<>>)

coreWords(s) == coreWordsFrom(s, 1, <<>>)

smartMatch(title, keywords) ==
    LET normalizedTitle == removeWhitespace(title)
    IN  \E k \in 1..Len(keywords) :
            \/ includes(normalizedTitle, keywords[k])
            \/ LET words == coreWords(keywords[k])
               IN  /\ Len(words) >= 2
                   /\ \A w \in 1..Len(words) :
                          includes(normalizedTitle, words[w])

\* Array.prototype.find over indices: the least index of hits, 0 if none
FirstIndex(hits) ==
    IF hits = {} THEN 0 ELSE CHOOSE i \in hits : \A j \in hits : i <= j

findChapterHtml(d, keywords, excludeKeywords) ==
    LET ok(i) ==
            /\ ~\E e \in 1..Len(excludeKeywords) :
                   includes(d.chapters[i].title, excludeKeywords[e])
            /\ smartMatch(d.chapters[i].title, keywords)
        i == FirstIndex({c \in 1..Len(d.chapters) : ok(c)})
    IN  IF i = 0 THEN UNDEFINED ELSE d.chapters[i].content

extractHtmlSlices(d) ==
    LET slice(role) ==
            findChapterHtml(d, CHAPTER_KEYWORDS[role],
                            EXCLUDE_KEYWORDS[role])
    IN  [scoringTableHtml |-> slice("scoring"),
         technicalChapterHtml |-> slice("technical"),
         formatChapterHtml |-> slice("format"),
         matchStatus |-> [role \in Roles |-> slice(role) # UNDEFINED]]

\* the end of the longest run of characters of class that starts at
\* position from of s (a greedy + or *), from - 1 when the run is empty
runEnd(s, from, class) ==
    CHOOSE k \in (from - 1)..Len(s) :
        /\ \A m \in from..k : s[m] \in class
        /\ k = Len(s) \/ s[k + 1] \notin class

\* length of the match of /第[一二三四五六七八九十\d]+[章节篇部]\s*/ that
\* starts at position i of s, 0 when it does not match there; no unit
\* character is a numeral, so only the longest run of numerals can match
numberingMatchLen(s, i) ==
    IF s[i] # "DI" THEN 0
    ELSE LET j == runEnd(s, i + 1, ChineseNumerals \cup Digits)
         IN  IF j > i /\ j < Len(s) /\ s[j + 1] \in UnitChars
             THEN runEnd(s, j + 2, WhitespaceChars) - i + 1
             ELSE 0

\* s without the match that starts at position at, s itself when at = 0
removeMatch(s, at) ==
    IF at = 0 THEN s
    ELSE SubSeq(s, 1, at - 1)
             \o SubSeq(s, at + numberingMatchLen(s, at), Len(s))

\* s.replace(/第[一二三四五六七八九十\d]+[章节篇部]\s*/, ''): the first match
\* is removed
stripNumbering(s) ==
    removeMatch(s, FirstIndex({i \in 1..Len(s) :
                                  numberingMatchLen(s, i) > 0}))

\* strategy 2 on one chapter: equal or containing, once numbering and
\* whitespace are removed
noNumberMatch(chapterTitle, normalizedTarget) ==
    \E normalizedChapter \in {stripNumbering(removeWhitespace(chapterTitle))} :
        \/ normalizedChapter = normalizedTarget
        \/ includes(normalizedChapter, normalizedTarget)
        \/ includes(normalizedTarget, normalizedChapter)

\* strategy 3 on one chapter: at least half of the core words of the
\* target occur in the title
coreWordMatch(chapterTitle, targetWords) ==
    /\ Len(targetWords) >= 1
    /\ 2 * Cardinality({w \in 1..Len(targetWords) :
                           includes(removeWhitespace(chapterTitle),
                                    targetWords[w])})
           >= Len(targetWords)

\* the chapter each strategy finds (Array.prototype.find), 0 when none:
\* 1 the exact title, 2 without numbering and whitespace, 3 core words
strategyHits(d, title, normalizedTarget) ==
    <<FirstIndex({i \in 1..Len(d.chapters) : d.chapters[i].title = title}),
      FirstIndex({i \in 1..Len(d.chapters) :
                     noNumberMatch(d.chapters[i].title, normalizedTarget)}),
      FirstIndex({i \in 1..Len(d.chapters) :
                     coreWordMatch(d.chapters[i].title,
                                   coreWords(normalizedTarget))})>>

\* the first entry of found that is not 0, 0 when all are
firstFound(found) ==
    IF \A k \in 1..Len(found) : found[k] = 0 THEN 0
    ELSE found[FirstIndex({k \in 1..Len(found) : found[k] # 0})]

contentAt_id(d, i) == IF i = 0 THEN UNDEFINED ELSE d.chapters[i].id

\* chapter?.content of the chapter at index i, undefined when i = 0
contentAt(d, i) == IF i = 0 THEN UNDEFINED ELSE d.chapters[i].content

findChapterByTitle(d, title) ==
    IF ~Truthy(title) THEN UNDEFINED
    ELSE contentAt(d, firstFound(strategyHits(
             d, title, stripNumbering(removeWhitespace(title)))))

----------------------------------------------------------------------------
(* synthesizeResults *)

Fields ==
    {"projectName", "projectCode", "purchaser", "agency", "deadline",
     "budget", "location", "validity", "bond", "biddingMethod"}

RISK_KEYWORDS ==
    <<"feibiao", "wuxiao", "jujue", "star", "triangle", "star2",
      "triangle2", "asterisk", "refmark", "shizhixing", "foujue", "bude",
      "buyunxu", "jinzhi", "buyushouli", "quxiaozige", "shixiao">>

FALLBACK_LIMIT == 20

PREFIX_LEN == 20

UNKNOWN_CHAPTER == <<"WEI", "ZHI", "ZHANG", "JIE">>

DefaultAuditLogic ==
    [symbolDef |-> "weineng-shibie-fuhao-dingyi",
     chapterRef |-> "weineng-shibie-xiangguan-zhangjie",
     rejectKeywords |-> SubSeq(RISK_KEYWORDS, 1, 5)]

\* `[AI分析失败] 匹配关键词: ${r.matchedKeyword}，请人工审核`
FallbackAnalysis(matchedKeyword) ==
    "[AI-fenxi-shibai] pipei-guanjianci: " \o matchedKeyword
        \o ", qing-rengong-shenhe"

Return(v) == [kind |-> "return", value |-> v]

Throw(e) == [kind |-> "throw", error |-> e]

\* aiResult?.basicInfo || {}
aiInfoOf(ai) ==
    IF ai # AI_NULL /\ HasField(ai, "basicInfo")
    THEN ai["basicInfo"]
    ELSE <<>>

basicInfoOf(info, ai) ==
    LET aiInfo == aiInfoOf(ai)
    IN  [f \in Fields |->
            createConflictField(info[f], PropChars(aiInfo, f),
                                REGEX_SOURCE, AI_SOURCE)]

\* aiResult?.filteredRisks && aiResult.filteredRisks.length > 0
hasFilteredRisks(ai) ==
    /\ ai # AI_NULL
    /\ HasField(ai, "filteredRisks")
    /\ Len(ai["filteredRisks"]) > 0

\* index of the first raw candidate whose text contains the first 20
\* characters of originalText, 0 when there is none (Array.prototype.find)
findCandidate(raw, originalText) ==
    FirstIndex({i \in 1..Len(raw) :
                   includes(raw[i].text,
                            substring0(originalText, PREFIX_LEN))})

\* r.originalText.substring(0, 20) is evaluated by the callback of find,
\* hence once the list has a first element; on undefined it is a TypeError
backfillThrows(r, raw) ==
    /\ ~Truthy(PropChars(r, "chapterTitle"))
    /\ Len(raw) > 0
    /\ ~HasField(r, "originalText")

\* r.chapterTitle || raw.find(...)?.chapterTitle || '未知章节'
chapterTitleOf(r, raw) ==
    IF Truthy(PropChars(r, "chapterTitle")) THEN r["chapterTitle"]
    ELSE LET i == IF HasField(r, "originalText")
                  THEN findCandidate(raw, r["originalText"])
                  ELSE 0
         IN  IF i # 0 /\ Truthy(raw[i].chapterTitle)
             THEN raw[i].chapterTitle
             ELSE UNKNOWN_CHAPTER

\* r.category || 'other'
categoryOf(r) ==
    IF TruthyAtom(Prop(r, "category")) THEN r["category"] ELSE "other"

\* one element of aiResult.filteredRisks.map(...)
oracleRisk(r, raw) ==
    [originalText |-> PropChars(r, "originalText"),
     chapterTitle |-> chapterTitleOf(r, raw),
     aiAnalysis |-> Prop(r, "analysis"),
     severity |-> Prop(r, "severity"),
     category |-> categoryOf(r)]

\* one element of raw.slice(0, 20).map(...)
fallbackRisk(c) ==
    [originalText |-> c.text,
     chapterTitle |-> c.chapterTitle,
     aiAnalysis |-> FallbackAnalysis(c.matchedKeyword),
     severity |-> "medium",
     category |-> "other"]

fallbackRisks_noLimit(raw) ==
    [i \in 1..Len(raw) |-> fallbackRisk(raw[i])]

fallbackRisks(raw) ==
    LET n == IF Len(raw) < FALLBACK_LIMIT
             THEN Len(raw) ELSE FALLBACK_LIMIT
    IN  [i \in 1..n |-> fallbackRisk(raw[i])]

invalidationRisksOf(ai, raw) ==
    IF hasFilteredRisks(ai)
    THEN LET fr == ai["filteredRisks"]
         IN  [i \in 1..Len(fr) |-> oracleRisk(fr[i], raw)]
    ELSE fallbackRisks(raw)

\* aiResult?.auditLogic || { ... }
auditLogicOf(ai) ==
    IF ai # AI_NULL /\ HasField(ai, "auditLogic")
    THEN ai["auditLogic"]
    ELSE DefaultAuditLogic

\* aiResult?.chapterMapping
aiMappingOf(ai) ==
    IF ai # AI_NULL /\ HasField(ai, "chapterMapping")
    THEN ai["chapterMapping"]
    ELSE <<>>

\* the chapter the oracle's mapping names, when it names one
sliceOf_mappingFirst(d, keywordSlice, aiMapping, role) ==
    IF Truthy(PropChars(aiMapping, role))
    THEN findChapterByTitle(d, aiMapping[role])
    ELSE keywordSlice

\* the slice of a role: the keyword match of step C, else the chapter the
\* oracle's mapping names
sliceOf(d, keywordSlice, aiMapping, role) ==
    IF ~TruthyAtom(keywordSlice) /\ Truthy(PropChars(aiMapping, role))
    THEN findChapterByTitle(d, aiMapping[role])
    ELSE keywordSlice

synthesizeResults(d, info, ai, raw, slices) ==
    LET fr == IF hasFilteredRisks(ai)
              THEN ai["filteredRisks"] ELSE <<>>
        aiMapping == aiMappingOf(ai)
    IN  IF \E i \in 1..Len(fr) : backfillThrows(fr[i], raw)
        THEN Throw("TypeError")
        ELSE Return(
            [basicInfo |-> basicInfoOf(info, ai),
             invalidationRisks |->
                 invalidationRisksOf(ai, raw),
             auditLogic |-> auditLogicOf(ai),
             scoringTableHtml |->
                 sliceOf(d, slices.scoringTableHtml, aiMapping,
                         "scoring"),
             technicalChapterHtml |->
                 sliceOf(d, slices.technicalChapterHtml, aiMapping,
                         "technical"),
             formatChapterHtml |->
                 sliceOf(d, slices.formatChapterHtml, aiMapping,
                         "format")])

----------------------------------------------------------------------------
(* Step D: performAIAnalysis *)

\* What the transport delivers for the request of step D:
\*   unreachable    fetch rejects (network failure)
\*   aborted        fetch rejects with AbortError
\*   notOk          a response with !response.ok
\*   bodyAborted    response.json() rejects with AbortError
\*   badBody        response.json() rejects, the body is not JSON
\*   successFalse   the body has success = false
\*   noJson         result.text holds no {...}
\*   malformedJson  JSON.parse of the {...} of result.text throws
\*   parsed         JSON.parse yields the object `parsed`
FailureKinds ==
    {"unreachable", "aborted", "notOk", "bodyAborted", "badBody",
     "successFalse", "noJson", "malformedJson"}

Event(kind) == [kind |-> kind]

ParsedEvent(obj) == [kind |-> "parsed", parsed |-> obj]

\* the inner try/catch around JSON.parse: a SyntaxError is caught and
\* null is returned
parseReply(event) ==
    IF event.kind = "malformedJson" THEN Return(AI_NULL)
    ELSE Return(event.parsed)

\* the body of the outer try block: what it returns or throws
tryBlock(event) ==
    CASE event.kind = "unreachable" -> Throw("TypeError")
      [] event.kind = "aborted" -> Throw("AbortError")
      [] event.kind = "notOk" -> Return(AI_NULL)
      [] event.kind = "bodyAborted" -> Throw("AbortError")
      [] event.kind = "badBody" -> Throw("SyntaxError")
      [] event.kind = "successFalse" -> Return(AI_NULL)
      [] event.kind = "noJson" -> Return(AI_NULL)
      [] OTHER -> parseReply(event)

performAIAnalysis_noCatch(event) == tryBlock(event)

\* the outer catch block returns null for whatever the try block throws
performAIAnalysis(event) ==
    LET r == tryBlock(event)
    IN  IF r.kind = "throw" THEN Return(AI_NULL) ELSE r

----------------------------------------------------------------------------
(* Documents, sweep results and oracle replies of the modelled runs *)

TitleFront == <<"WEN", "JIAN", "FENG", "MIAN", "/", "QIAN", "YAN">>

TitleNotice == <<"DI", "CN1", "ZHANG", " ", "ZHAO", "BIAO", "GONG", "GAO">>

TitleScoring == <<"DI", "CN2", "ZHANG", " ", "PING", "FEN", "BAN", "FA">>

TitleTechnical == <<"DI", "CN3", "ZHANG", " ", "JI", "SHU", "YAO", "QIU">>

TitleFormat ==
    <<"DI", "CN4", "ZHANG", " ", "TOU", "BIAO", "WEN", "JIAN", "GE", "SHI4">>

TitleContract == <<"DI", "CN5", "ZHANG", " ", "HE", "TONG", "FAN", "BEN">>

TitleNeeds == <<"DI", "CN1", "ZHANG", " ", "CAI", "GOU", "XU", "QIU">>

TitleEvaluation ==
    <<"DI", "CN2", "ZHANG", " ", "ZONG", "HE", "PING", "JIA", "BAN", "FA">>

TitleContractFormat ==
    <<"DI", "CN3", "ZHANG", " ", "HE", "TONG", "XIE", "YI4", "GE", "SHI4">>

TitleAppraisal == <<"DI", "CN3", "ZHANG", " ", "PING", "JIA">>

Chapter(id, title, content) ==
    [id |-> id, title |-> title, content |-> content]

\* every role is matched by keyword
DocKeyworded ==
    [name |-> "keyworded.docx",
     chapters |-> << Chapter("chapter-0", TitleFront, "<p>front</p>"),
                     Chapter("chapter-1", TitleNotice, "<p>notice</p>"),
                     Chapter("chapter-2", TitleScoring, "<p>scoring</p>"),
                     Chapter("chapter-3", TitleTechnical, "<p>technical</p>"),
                     Chapter("chapter-4", TitleFormat, "<p>format</p>"),
                     Chapter("chapter-5", TitleContract, "<p>contract</p>") >>]

\* no role is matched by keyword
DocUnkeyworded ==
    [name |-> "unkeyworded.docx",
     chapters |-> << Chapter("chapter-1", TitleNeeds, "<p>needs</p>"),
                     Chapter("chapter-2", TitleEvaluation, "<p>evaluation</p>"),
                     Chapter("chapter-3", TitleContractFormat,
                             "<p>contract format</p>") >>]

\* a document without accepted headings
DocFrontOnly ==
    [name |-> "front.docx",
     chapters |-> << Chapter("chapter-0", TitleFront, "<p>all</p>") >>]

\* no role is matched by keyword, and the title of the last chapter, without
\* its numbering, is a part of the title of the chapter before it
DocNested ==
    [name |-> "nested.docx",
     chapters |-> << Chapter("chapter-1", TitleNeeds, "<p>needs</p>"),
                     Chapter("chapter-2", TitleEvaluation, "<p>evaluation</p>"),
                     Chapter("chapter-3", TitleAppraisal,
                             "<p>appraisal</p>") >>]

Docs == {DocKeyworded, DocUnkeyworded, DocFrontOnly, DocNested}

DigitChar(d) ==
    CASE d = 0 -> "0" [] d = 1 -> "1" [] d = 2 -> "2" [] d = 3 -> "3"
      [] d = 4 -> "4" [] d = 5 -> "5" [] d = 6 -> "6" [] d = 7 -> "7"
      [] d = 8 -> "8" [] d = 9 -> "9"

NumChars(k) ==
    IF k < 10 THEN <<DigitChar(k)>>
    ELSE <<DigitChar(k \div 10), DigitChar(k % 10)>>

ClauseTail ==
    <<"-", "r", "i", "s", "k", "-", "c", "l", "a", "u", "s", "e", "-",
      "t", "e", "x", "t", "-", "x", "y", "z">>

\* the k-th risk clause of a document: texts are pairwise different and
\* longer than 20 characters
CandText(k) == NumChars(k) \o ClauseTail

Cand(d, k) ==
    [text |-> CandText(k),
     chapterTitle |-> d.chapters[((k - 1) % Len(d.chapters)) + 1].title,
     matchedKeyword |-> RISK_KEYWORDS[((k - 1) % Len(RISK_KEYWORDS)) + 1]]

\* the lengths of the modelled candidate lists: none, few, a two-digit
\* number, and the lengths around the fallback limit of 20
RawLengths == {0, 1, 2, 12, 19, 20} \cup 21..MaxRaw

\* what extractRiskCandidates can return for d: no two candidates share a
\* text; clauses in document order, or (12 clauses) in the opposite order
RawCandidateLists(d) ==
    { [i \in 1..n |-> Cand(d, i)] : n \in RawLengths }
        \cup { [i \in 1..12 |-> Cand(d, 13 - i)] }

NullInfo == [f \in Fields |-> NULL]

\* what extractBasicInfoByRegex can return
RegexInfos ==
    { NullInfo,
      [NullInfo EXCEPT !["budget"] = <<"A">>],
      [NullInfo EXCEPT !["budget"] = <<"a", " ", "b">>,
                       !["projectName"] = <<"b">>] }

Restrict(o, D) == [f \in D \cap DOMAIN o |-> o[f]]

AIBasicInfos ==
    { <<>>,
      [budget |-> <<"a">>],
      [budget |-> <<"a", "b">>, projectName |-> <<"A">>,
       bond |-> <<"n", "u", "l", "l">>, agency |-> <<"b", " ">>] }

RiskFields ==
    {"originalText", "chapterTitle", "analysis", "severity", "category"}

\* an oracle text that agrees with clause k on the first 20 characters only
Reworded(k) == substring0(CandText(k), PREFIX_LEN) \o <<"!", "!">>

\* an oracle text that differs from clause k within the first 20 characters
Paraphrased(k) == NumChars(k) \o <<"-", "R", "I", "S", "K">>

FullRiskItems ==
    { [originalText |-> CandText(1), chapterTitle |-> TitleNotice,
       analysis |-> "analysis-1", severity |-> "high",
       category |-> "qualification"],
      [originalText |-> Reworded(2), chapterTitle |-> TitleScoring,
       analysis |-> "analysis-2", severity |-> "medium",
       category |-> "commercial"],
      [originalText |-> Paraphrased(3), chapterTitle |-> <<>>,
       analysis |-> "analysis-3", severity |-> "high",
       category |-> "technical"],
      [originalText |-> <<>>, chapterTitle |-> TitleNotice,
       analysis |-> "analysis-4", severity |-> "medium",
       category |-> ""],
      [originalText |-> CandText(1), chapterTitle |-> TitleFormat,
       analysis |-> "analysis-5", severity |-> "critical",
       category |-> "legal"] }

\* the oracle may omit any field of a risk item
RiskItems == { Restrict(r, D) : r \in FullRiskItems, D \in SUBSET RiskFields }

ItemQualification ==
    CHOOSE r \in FullRiskItems : r.category = "qualification"

ItemCommercial ==
    CHOOSE r \in FullRiskItems : r.category = "commercial"

ItemTechnical ==
    CHOOSE r \in FullRiskItems : r.category = "technical"

FilteredRiskLists ==
    { <<>> } \cup { <<r>> : r \in RiskItems }
        \cup { <<ItemQualification, ItemCommercial, ItemQualification>>,
               <<ItemCommercial, Restrict(ItemTechnical, {"originalText"})>>,
               <<Restrict(ItemQualification, {"severity"}), ItemCommercial>> }

AuditLogicFromAI ==
    [symbolDef |-> "ai-symbol-definition", chapterRef |-> "ai-chapter",
     rejectKeywords |-> <<"feibiao", "foujue">>]

AIChapterMappings ==
    { [scoring |-> TitleEvaluation, technical |-> TitleNeeds,
       format |-> TitleContractFormat],
      [scoring |-> <<"ZONG", "HE", "PING", "JIA">>,
       technical |-> <<"DI", "9", "ZHANG", "CAI", "GOU", "XU", "QIU">>],
      [scoring |-> <<"PING", "JIA", "a", "ZHAO", "BIAO">>,
       format |-> <<"AN", "BEN">>],
      [scoring |-> <<>>, technical |-> <<"DI", "CN1", "ZHANG">>],
      [scoring |-> TitleAppraisal,
       technical |-> <<"PING", "JIA", "a", "CAI", "GOU">>] }

FullAIResult ==
    [basicInfo |-> [budget |-> <<"a">>],
     filteredRisks |-> <<ItemQualification>>,
     auditLogic |-> AuditLogicFromAI,
     chapterMapping |-> [scoring |-> TitleEvaluation]]

AIResultFields == {"basicInfo", "filteredRisks", "auditLogic", "chapterMapping"}

\* the objects JSON.parse can yield: any field may be omitted
AIResults ==
    { Restrict(FullAIResult, D) : D \in SUBSET AIResultFields }
        \cup { [FullAIResult EXCEPT !["filteredRisks"] = l] :
                   l \in FilteredRiskLists }
        \cup { [FullAIResult EXCEPT !["basicInfo"] = b] : b \in AIBasicInfos }
        \cup { [FullAIResult EXCEPT !["chapterMapping"] = m] :
                   m \in AIChapterMappings }

----------------------------------------------------------------------------
(* analyzeBidDocument *)

NotCalled == [kind |-> "none"]

NoSlices ==
    [scoringTableHtml |-> UNDEFINED, technicalChapterHtml |-> UNDEFINED,
     formatChapterHtml |-> UNDEFINED,
     matchStatus |-> [role \in Roles |-> FALSE]]

signalAborted == abortedAt # "never"

\* checkAborted(): TRUE when it throws the AbortError
checkAborted_never(aborted) == FALSE

checkAborted(aborted) == aborted

\* the values of the run variables while no run is modelled
RunParked ==
    /\ doc = DocFrontOnly
    /\ abortedAt = "never"
    /\ pc = "parked"
    /\ rawRiskCandidates = <<>>
    /\ regexInfo = NullInfo
    /\ htmlSlices = NoSlices
    /\ transport = NotCalled
    /\ aiResult = NotCalled
    /\ synth = NotCalled
    /\ outcome = NotCalled

\* the values of the createConflictField variables in the runs
CFParked ==
    /\ regexValue = NULL
    /\ aiValue = NULL
    /\ cfPc = "parked"
    /\ cfField = NoField

\* useState<KeyInformation | null>(null)
NullKeyInfo == [isNull |-> TRUE]

\* the values of the App variables while the App is not modelled
AppParked ==
    /\ keyInfo = NullKeyInfo
    /\ expanded = [f \in Fields |-> FALSE]
    /\ lastResolve = NotCalled

\* the values of the structurer variables while it is not modelled
StructParked ==
    /\ bodyChildren = <<>>
    /\ activeChapterType = NotCalled
    /\ parsed = NotCalled

\* the values of the variables of extractFromTable while it is not modelled
TableParked ==
    /\ tables = <<>>
    /\ tableValue = NotCalled

\* the values of the variables of extractRiskCandidates while it is not
\* modelled
AnalysisParked ==
    /\ state = "IDLE"
    /\ parsing = {}
    /\ appDoc = NullKeyInfo
    /\ analysisState = "IDLE"
    /\ keyInfoState = NullKeyInfo
    /\ showAnalysisPanel = FALSE
    /\ abortControllerRef = NullKeyInfo
    /\ abortedSignals = {}
    /\ previousKeyInfoRef = NullKeyInfo
    /\ localStorage = <<>>
    /\ runs = <<>>
    /\ cacheLog = <<>>
    /\ lastCall = NotCalled
    /\ shownAtStart = NullKeyInfo
    /\ lastCancel = NotCalled

RiskParked ==
    /\ riskDoc = <<>>
    /\ candidatesA = NotCalled

Init ==
    /\ doc \in Docs
    /\ abortedAt = "never"
    /\ pc = "idle"
    /\ rawRiskCandidates = <<>>
    /\ regexInfo = NullInfo
    /\ htmlSlices = NoSlices
    /\ transport = NotCalled
    /\ aiResult = NotCalled
    /\ synth = NotCalled
    /\ outcome = NotCalled
    /\ CFParked
    /\ AppParked
    /\ StructParked
    /\ TableParked
    /\ RiskParked
    /\ AnalysisParked

\* the caller calls abort() on the controller of the signal
Abort ==
    /\ pc \in {"idle", "fetch", "json", "done"}
    /\ abortedAt = "never"
    /\ abortedAt' = pc
    /\ UNCHANGED <<doc, pc, rawRiskCandidates, regexInfo, htmlSlices,
                   transport, aiResult, synth, outcome, cfVars, appVars, structVars, tableVars, riskVars, analysisVars>>

\* analyzeBidDocument from its entry to the first await: steps A, B and C
\* and the synchronous part of performAIAnalysis up to the fetch call run
\* without interruption, so all checkAborted() calls and the check of
\* signal.aborted before fetch see the signal as it was at entry
Call ==
    /\ pc = "idle"
    /\ IF checkAborted(signalAborted)
       THEN /\ outcome' = Throw("AbortError")
            /\ pc' = "done"
            /\ UNCHANGED <<rawRiskCandidates, regexInfo, htmlSlices>>
       ELSE /\ rawRiskCandidates' \in RawCandidateLists(doc)
            /\ regexInfo' \in RegexInfos
            /\ htmlSlices' = extractHtmlSlices(doc)
            /\ outcome' = outcome
            /\ pc' = "fetch"
    /\ UNCHANGED <<doc, abortedAt, transport, aiResult, synth, cfVars, appVars, structVars, tableVars, riskVars, analysisVars>>

\* the rest of analyzeBidDocument once performAIAnalysis has settled with
\* ai: checkAborted(), then step E, whose completion is the run's
afterD(ai) ==
    IF ai.kind = "throw"
    THEN synth' = NotCalled /\ outcome' = ai
    ELSE IF checkAborted(signalAborted)
    THEN synth' = NotCalled /\ outcome' = Throw("AbortError")
    ELSE /\ synth' = synthesizeResults(doc, regexInfo, ai.value,
                                       rawRiskCandidates, htmlSlices)
         /\ outcome' = synth'

\* performAIAnalysis settles on the event, analyzeBidDocument runs to its end
Settle(event) ==
    /\ transport' = event
    /\ aiResult' = performAIAnalysis(event)
    /\ afterD(aiResult')
    /\ pc' = "done"
    /\ UNCHANGED <<doc, abortedAt, rawRiskCandidates, regexInfo,
                   htmlSlices, cfVars, appVars, structVars, tableVars, riskVars, analysisVars>>

FetchUnreachable == pc = "fetch" /\ Settle(Event("unreachable"))

FetchAborted == pc = "fetch" /\ signalAborted /\ Settle(Event("aborted"))

ResponseNotOk == pc = "fetch" /\ Settle(Event("notOk"))

ResponseOk ==
    /\ pc = "fetch"
    /\ pc' = "json"
    /\ UNCHANGED <<doc, abortedAt, rawRiskCandidates, regexInfo, htmlSlices,
                   transport, aiResult, synth, outcome, cfVars, appVars, structVars, tableVars, riskVars, analysisVars>>

BodyAborted == pc = "json" /\ signalAborted /\ Settle(Event("bodyAborted"))

BodyNotJson == pc = "json" /\ Settle(Event("badBody"))

ReplySuccessFalse == pc = "json" /\ Settle(Event("successFalse"))

ReplyNoJson == pc = "json" /\ Settle(Event("noJson"))

ReplyMalformedJson == pc = "json" /\ Settle(Event("malformedJson"))

ReplyParsed ==
    /\ pc = "json"
    /\ \E obj \in AIResults : Settle(ParsedEvent(obj))

Next ==
    \/ Abort
    \/ Call
    \/ FetchUnreachable
    \/ FetchAborted
    \/ ResponseNotOk
    \/ ResponseOk
    \/ BodyAborted
    \/ BodyNotJson
    \/ ReplySuccessFalse
    \/ ReplyNoJson
    \/ ReplyMalformedJson
    \/ ReplyParsed

Spec == Init /\ [][Next]_vars

----------------------------------------------------------------------------
(* Source values handed to createConflictField *)

RECURSIVE StringsUpTo(_)
StringsUpTo(n) ==
    IF n = 0 THEN {<<>>}
    ELSE LET shorter == StringsUpTo(n - 1)
         IN  shorter \cup {Append(s, c) : s \in shorter, c \in Alphabet}

SpecialValues ==
    { <<"n", "u", "l", "l">>, <<"N", "U", "L", "L">>, <<"N", "u", "l", "l">>,
      <<" ", "n", "u", "l", "l", " ">>, <<"n", "u", "l">>,
      <<"WU">>, <<"ZAN", "WU">>, <<" ", "WU">>, <<"ZAN">>,
      <<"a", " ", "b">>, <<"A", "\t", "B">>, <<"a", "b", " ">>,
      UNRECOGNIZED }

SourceValues == {NULL} \cup StringsUpTo(MaxValueLen) \cup SpecialValues

CFInit ==
    /\ regexValue \in SourceValues
    /\ aiValue \in SourceValues
    /\ cfPc = "call"
    /\ cfField = NoField
    /\ RunParked
    /\ AppParked
    /\ StructParked
    /\ TableParked
    /\ RiskParked
    /\ AnalysisParked

CallCreateConflictField ==
    /\ cfPc = "call"
    /\ cfField' = createConflictField(regexValue, aiValue,
                                      REGEX_SOURCE, AI_SOURCE)
    /\ cfPc' = "returned"
    /\ UNCHANGED <<regexValue, aiValue, runVars, appVars, structVars, tableVars, riskVars, analysisVars>>

CFNext == CallCreateConflictField

SpecCF == CFInit /\ [][CFNext]_vars

----------------------------------------------------------------------------
(* Claims about createConflictField *)

\* What the specification calls an absent source value: null, blank after
\* trimming, "null" in any letter case, or one of the two "none" words.
SourceAbsent(v) ==
    \/ v = NULL
    \/ trim(v) = <<>>
    \/ toLowerCase(trim(v)) = <<"n", "u", "l", "l">>
    \/ trim(v) \in {<<"WU">>, <<"ZAN", "WU">>}

SourcePresent(v) == ~SourceAbsent(v)

\* Case/whitespace-normalised form of a present source value.
SourceNormalized(v) == toLowerCase(removeWhitespace(v))

\* C1: isConflict is true if and only if both the regex value and the
\* oracle value are present and they differ after removing all whitespace
\* and lower-casing; it is false in every other case.
C1_IsConflictIff ==
    cfPc = "returned" =>
        (cfField.isConflict <=>
            /\ SourcePresent(regexValue)
            /\ SourcePresent(aiValue)
            /\ SourceNormalized(regexValue) # SourceNormalized(aiValue))

\* C1 witness: regex "A" against oracle "a" has been adjudicated as no
\* conflict although the two cleaned values differ.
C1_Witness ==
    /\ cfPc = "returned"
    /\ regexValue = <<"A">>
    /\ aiValue = <<" ", "a">>
    /\ ~cfField.isConflict
    /\ Len(cfField.candidates) = 2

C3_Candidates ==
    cfPc = "returned" =>
        LET r == trim(regexValue)
            a == trim(aiValue)
            rp == SourcePresent(regexValue)
            ap == SourcePresent(aiValue)
            regexEntry == [value |-> r, source |-> REGEX_SOURCE]
            aiEntry == [value |-> a, source |-> AI_SOURCE]
        IN  /\ (~rp /\ ~ap) => cfField.candidates = <<>>
            /\ (rp /\ ~ap) => cfField.candidates = <<regexEntry>>
            /\ (~rp /\ ap) => cfField.candidates = <<aiEntry>>
            /\ (rp /\ ap /\ r = a) => cfField.candidates = <<regexEntry>>
            /\ (rp /\ ap /\ r # a)
                   => cfField.candidates = <<regexEntry, aiEntry>>

\* C3 witness: the same value from both sources was listed once.
C3_Witness ==
    /\ cfPc = "returned"
    /\ regexValue = <<"b">>
    /\ aiValue = <<"b", " ">>
    /\ Len(cfField.candidates) = 1

----------------------------------------------------------------------------
(* Claims about synthesizeResults, performAIAnalysis and analyzeBidDocument *)

Min(a, b) == IF a < b THEN a ELSE b

\* step E has been executed
StepEDone == pc = "done" /\ synth # NotCalled

\* the object performAIAnalysis handed to step E (AI_NULL for null)
OracleResult == aiResult.value

\* the oracle produced no risks: null, filteredRisks missing, or empty
OracleNoRisks ==
    \/ OracleResult = AI_NULL
    \/ ~HasField(OracleResult, "filteredRisks")
    \/ OracleResult["filteredRisks"] = <<>>

\* C4: when the oracle produced no risks (null result, filteredRisks missing
\* or empty), synthesizeResults returns exactly min(20, number of raw
\* candidates) risk items: the first raw candidates in their order, each
\* with severity "medium", category "other" and an analysis text that names
\* its matched keyword and asks for manual review.
C4_FallbackRisks ==
    (StepEDone /\ OracleNoRisks) =>
        /\ synth.kind = "return"
        /\ LET risks == synth.value.invalidationRisks
           IN  /\ Len(risks) = Min(20, Len(rawRiskCandidates))
               /\ \A i \in 1..Len(risks) :
                      /\ risks[i].originalText = rawRiskCandidates[i].text
                      /\ risks[i].chapterTitle
                             = rawRiskCandidates[i].chapterTitle
                      /\ risks[i].severity = "medium"
                      /\ risks[i].category = "other"
                      /\ risks[i].aiAnalysis
                             = "[AI-fenxi-shibai] pipei-guanjianci: "
                                  \o rawRiskCandidates[i].matchedKeyword
                                  \o ", qing-rengong-shenhe"

\* C4 witness: the oracle returned an object with an empty filteredRisks
\* list, the sweep had found more than 20 candidates, 20 were kept.
C4_Witness ==
    /\ StepEDone
    /\ OracleResult # AI_NULL
    /\ HasField(OracleResult, "filteredRisks")
    /\ OracleResult["filteredRisks"] = <<>>
    /\ Len(rawRiskCandidates) > 20
    /\ synth.kind = "return"
    /\ Len(synth.value.invalidationRisks) = 20

\* the oracle gave the field a (non-empty) value
GivenChars(r, f) == HasField(r, f) /\ r[f] # <<>>

GivenAtom(r, f) == HasField(r, f) /\ r[f] # ""

\* the chapter title the claim prescribes for an item without one: that of
\* the first raw candidate whose text contains the first 20 characters of
\* the item's originalText, else the "unknown chapter" text
BackfilledTitle(r) ==
    LET prefix == IF HasField(r, "originalText")
                  THEN SubSeq(r["originalText"], 1,
                              Min(20, Len(r["originalText"])))
                  ELSE NULL
        hits == {i \in 1..Len(rawRiskCandidates) :
                    /\ prefix # NULL
                    /\ includes(rawRiskCandidates[i].text, prefix)}
    IN  IF hits = {} THEN UNKNOWN_CHAPTER
        ELSE rawRiskCandidates[CHOOSE i \in hits :
                                   \A j \in hits : i <= j].chapterTitle

\* what C5 says of the items of a synthesized risk list
OracleRisksKept(risks) ==
    LET fr == OracleResult["filteredRisks"]
    IN  /\ Len(risks) = Len(fr)
        /\ \A i \in 1..Len(fr) :
               /\ risks[i].originalText = PropChars(fr[i], "originalText")
               /\ risks[i].severity = Prop(fr[i], "severity")
               /\ risks[i].aiAnalysis = Prop(fr[i], "analysis")
               /\ risks[i].chapterTitle =
                      IF GivenChars(fr[i], "chapterTitle")
                      THEN fr[i]["chapterTitle"]
                      ELSE BackfilledTitle(fr[i])
               /\ risks[i].category =
                      IF GivenAtom(fr[i], "category")
                      THEN fr[i]["category"]
                      ELSE "other"

\* C5: when the oracle returned a non-empty filteredRisks list, the
\* synthesized risk list has the length and order of that list and holds no
\* fallback item; each item keeps the oracle's originalText and severity,
\* its chapterTitle is the oracle's when given and is otherwise backfilled
\* from the first raw candidate containing the first 20 characters of
\* originalText (else "unknown chapter"), and its category is "other" only
\* when the oracle omitted it.
C5_OracleRisksAuthoritative ==
    (StepEDone /\ ~OracleNoRisks) =>
        /\ synth.kind = "return"
        /\ OracleRisksKept(synth.value.invalidationRisks)

\* the part of C5 that the code keeps: whenever synthesizeResults returns,
\* the list is as C5 says
C5_WhenReturned ==
    (StepEDone /\ ~OracleNoRisks /\ synth.kind = "return") =>
        OracleRisksKept(synth.value.invalidationRisks)

RiskCategories ==
    {"qualification", "commercial", "technical", "document", "timeline",
     "other"}

Severities == {"high", "medium"}

\* C6: for every oracle response that parses as a JSON object, every
\* InvalidationRisk of the returned KeyInformation has a category in
\* {qualification, commercial, technical, document, timeline, other} and a
\* severity in {high, medium}.
C6_ClosedCategoryAndSeverity ==
    (pc = "done" /\ transport.kind = "parsed" /\ outcome.kind = "return") =>
        \A i \in 1..Len(outcome.value.invalidationRisks) :
            /\ outcome.value.invalidationRisks[i].category \in RiskCategories
            /\ outcome.value.invalidationRisks[i].severity \in Severities

\* the signal was fired before the oracle call of step D had settled
CancelledBeforeDSettled == abortedAt \in {"idle", "fetch", "json"}

\* C8: if the cancellation signal is fired before the oracle call of step D
\* has resolved (before the run starts or while D is pending),
\* analyzeBidDocument rejects with AbortError, step E never executes and no
\* KeyInformation is returned.
C8_CancelRejects ==
    (pc = "done" /\ CancelledBeforeDSettled) =>
        /\ outcome = Throw("AbortError")
        /\ synth = NotCalled

\* C8 witness: the signal was fired while the reply was pending, the oracle
\* then delivered a well-formed reply, and the run was rejected.
C8_Witness ==
    /\ pc = "done"
    /\ abortedAt = "json"
    /\ transport.kind = "parsed"
    /\ outcome = Throw("AbortError")

\* C9: performAIAnalysis never raises past its boundary and returns null,
\* never a partial result, for an unreachable backend, a non-OK status, a
\* success=false reply, a reply without JSON object, a reply whose JSON
\* object fails to parse, or an aborted request.
C9_AdapterReturnsNull ==
    /\ aiResult.kind # "throw"
    /\ (pc = "done" /\ transport # NotCalled
            /\ transport.kind \in FailureKinds)
           => aiResult = Return(AI_NULL)

\* C9 witness: the request was aborted while pending and performAIAnalysis
\* returned null.
C9_Witness ==
    /\ pc = "done"
    /\ transport.kind = "aborted"
    /\ aiResult = Return(AI_NULL)

\* the run was not cancelled before it ended
NotCancelled == abortedAt \in {"never", "done"}

\* C10: provided the run is not cancelled, analyzeBidDocument completes
\* with a KeyInformation and never throws, whatever the oracle did; after an
\* oracle failure the basic info is regex-only without conflicts and the
\* risks are the fallback items.
C10_NeverThrows ==
    (pc = "done" /\ NotCancelled) =>
        /\ outcome.kind = "return"
        /\ transport.kind \in FailureKinds =>
               /\ \A f \in Fields :
                      /\ ~outcome.value.basicInfo[f].isConflict
                      /\ \A c \in 1..Len(outcome.value.basicInfo[f].candidates) :
                             outcome.value.basicInfo[f].candidates[c].source
                                 = REGEX_SOURCE
               /\ \A i \in 1..Len(outcome.value.invalidationRisks) :
                      outcome.value.invalidationRisks[i].severity = "medium"

----------------------------------------------------------------------------
(* Claims about the slices *)

SliceFields == {"scoringTableHtml", "technicalChapterHtml", "formatChapterHtml"}

\* the contents of the chapters of the analysed document
ChapterContents == {doc.chapters[i].content : i \in 1..Len(doc.chapters)}

\* C11: in the KeyInformation returned by analyzeBidDocument each of the
\* three slice fields is null or exactly the content of one chapter of
\* doc.chapters, whether chosen by keyword match or by the oracle's
\* chapterMapping.
C11_SlicesAreChapterContents ==
    (pc = "done" /\ outcome.kind = "return") =>
        \A f \in SliceFields :
            \/ outcome.value[f] = UNDEFINED
            \/ outcome.value[f] \in ChapterContents

\* C11 witness: no heading matched a keyword, and the returned scoring slice
\* is the chapter the oracle's chapterMapping named by a title that is not
\* the chapter's exact title.
C11_Witness ==
    /\ pc = "done" /\ outcome.kind = "return"
    /\ htmlSlices.scoringTableHtml = UNDEFINED
    /\ outcome.value.scoringTableHtml \in ChapterContents
    /\ \A i \in 1..Len(doc.chapters) :
           doc.chapters[i].title
               # aiResult.value["chapterMapping"]["scoring"]

----------------------------------------------------------------------------
(* App: the basic-info cards and handleConflictResolve *)

\* results of step B and basicInfo objects of the oracle that disagree in
\* several fields
AppRegexInfos ==
    { [NullInfo EXCEPT !["budget"] = <<"A">>, !["deadline"] = <<"a">>,
                       !["projectName"] = <<"b">>,
                       !["location"] = <<"a">>],
      [NullInfo EXCEPT !["budget"] = <<"a", " ", "b">>] }

AppAIInfos ==
    { [budget |-> <<"b">>, deadline |-> <<"b", " ">>,
       projectName |-> <<"a", "b">>, agency |-> <<"a">>,
       location |-> <<"A", " ">>],
      [budget |-> <<"a">>, deadline |-> <<"b">>, projectName |-> <<"A">>] }

\* the KeyInformation objects handleDeepAnalysis passes to setKeyInfo: what
\* analyzeBidDocument returned
AnalysedKeyInfos ==
    { synthesizeResults(DocKeyworded, info,
                        [FullAIResult EXCEPT !["basicInfo"] = b],
                        <<Cand(DocKeyworded, 1)>>,
                        extractHtmlSlices(DocKeyworded)).value :
          info \in AppRegexInfos, b \in AppAIInfos }

handleConflictResolve_dropCandidates(ki, fieldKey, selectedValue) ==
    IF ki = NullKeyInfo THEN ki
    ELSE [ki EXCEPT !.basicInfo[fieldKey] =
                        [value |-> selectedValue, isConflict |-> FALSE,
                         candidates |-> <<>>]]

\* the state setKeyInfo is called with; keyInfo itself on the early return
handleConflictResolve(ki, fieldKey, selectedValue) ==
    IF ki = NullKeyInfo THEN ki
    ELSE [ki EXCEPT !.basicInfo[fieldKey] =
                        [@ EXCEPT !.value = selectedValue,
                                  !.isConflict = FALSE]]

\* ConflictFieldDisplay renders the candidate picker of the field
pickerOffered(field) == field.isConflict /\ Len(field.candidates) > 1

AppInit ==
    /\ keyInfo \in AnalysedKeyInfos \cup {NullKeyInfo}
    /\ expanded = [f \in Fields |-> FALSE]
    /\ lastResolve = NotCalled
    /\ RunParked
    /\ CFParked
    /\ StructParked
    /\ TableParked
    /\ RiskParked
    /\ AnalysisParked

\* the user clicks the button that shows or hides the candidates of a field
ToggleExpanded(fieldKey) ==
    /\ keyInfo # NullKeyInfo
    /\ pickerOffered(keyInfo.basicInfo[fieldKey])
    /\ expanded' = [expanded EXCEPT ![fieldKey] = ~@]
    /\ UNCHANGED <<keyInfo, lastResolve, cfVars, runVars, structVars, tableVars, riskVars, analysisVars>>

\* the user clicks candidate i of a field: onResolve(fieldKey, c.value)
SelectCandidate(fieldKey, i) ==
    /\ keyInfo # NullKeyInfo
    /\ pickerOffered(keyInfo.basicInfo[fieldKey])
    /\ expanded[fieldKey]
    /\ i \in 1..Len(keyInfo.basicInfo[fieldKey].candidates)
    /\ keyInfo' = handleConflictResolve(
                      keyInfo, fieldKey,
                      keyInfo.basicInfo[fieldKey].candidates[i].value)
    /\ lastResolve' =
           [fieldKey |-> fieldKey,
            selectedValue |-> keyInfo.basicInfo[fieldKey].candidates[i].value,
            before |-> keyInfo]
    /\ UNCHANGED <<expanded, cfVars, runVars, structVars, tableVars, riskVars, analysisVars>>

AppNext ==
    \/ \E fieldKey \in Fields : ToggleExpanded(fieldKey)
    \/ \E fieldKey \in Fields, i \in 1..2 : SelectCandidate(fieldKey, i)

SpecApp == AppInit /\ [][AppNext]_vars

----------------------------------------------------------------------------
(* Claims about handleConflictResolve *)

\* C12: handleConflictResolve(field, c) changes only that field's value (to
\* c) and isConflict (to false); the field's candidates, every other
\* basicInfo field, the risk list, the audit logic and the three slices are
\* left unchanged.
C12_ResolveFrame ==
    lastResolve # NotCalled =>
        /\ keyInfo.basicInfo[lastResolve.fieldKey].value
               = lastResolve.selectedValue
        /\ ~keyInfo.basicInfo[lastResolve.fieldKey].isConflict
        /\ keyInfo.basicInfo[lastResolve.fieldKey].candidates
               = lastResolve.before.basicInfo[lastResolve.fieldKey].candidates
        /\ \A g \in Fields \ {lastResolve.fieldKey} :
               keyInfo.basicInfo[g] = lastResolve.before.basicInfo[g]
        /\ DOMAIN keyInfo = DOMAIN lastResolve.before
        /\ \A k \in DOMAIN keyInfo \ {"basicInfo"} :
               keyInfo[k] = lastResolve.before[k]

\* C12 witness: a conflicting field was resolved to a candidate other than
\* the value it showed, while another field is still in conflict.
C12_Witness ==
    /\ lastResolve # NotCalled
    /\ lastResolve.before.basicInfo[lastResolve.fieldKey].value
           # lastResolve.selectedValue
    /\ keyInfo.basicInfo[lastResolve.fieldKey].value
           = lastResolve.selectedValue
    /\ \E g \in Fields : keyInfo.basicInfo[g].isConflict

\* C13: after a conflicting field has been resolved by selecting one
\* candidate, selecting another candidate of the same field is still
\* available: the candidate picker of the field stays offered.
C13_ResolveReversible ==
    lastResolve # NotCalled =>
        /\ Len(keyInfo.basicInfo[lastResolve.fieldKey].candidates) > 1
        /\ pickerOffered(keyInfo.basicInfo[lastResolve.fieldKey])

----------------------------------------------------------------------------
(* Regular expressions of the structurer (src/unnamed/part_003) *)

(***************************************************************************)
(* A pattern is a sequence of items; an item matches a run of min..max     *)
(* characters that are in cls (not in cls when neg), or is an anchor that  *)
(* matches the empty string at the start or the end of the text.  A        *)
(* regular expression is a sequence of alternative patterns.  The unit     *)
(* 部分 is the two characters "BU", "FEN"; 百 is "BAI", 卷 "JUAN", 条      *)
(* "TIAO", 款 "KUAN"; "DOT" is the middle dot and "ELLIPSIS" the           *)
(* horizontal ellipsis.                                                    *)
(***************************************************************************)
Rx(cls, min, max) ==
    [cls |-> cls, neg |-> FALSE, min |-> min, max |-> max, at |-> "any"]

RxStart == [cls |-> {}, neg |-> FALSE, min |-> 0, max |-> 0, at |-> "start"]

RxEnd == [cls |-> {}, neg |-> FALSE, min |-> 0, max |-> 0, at |-> "end"]

\* an upper limit no quantifier reaches
Unbounded == 100000

\* the length, at most max, of the longest run of characters item it
\* matches from position i of s on
RECURSIVE runLength(_, _, _, _)
runLength(s, i, it, max) ==
    IF max > 0 /\ i <= Len(s) /\ (s[i] \in it.cls) # it.neg
    THEN 1 + runLength(s, i + 1, it, max - 1)
    ELSE 0

\* the positions after the matches of items k.. of pat that start at
\* position i of s, over all choices of the quantifiers
RECURSIVE MatchEnds(_, _, _, _)
MatchEnds(s, i, pat, k) ==
    IF k > Len(pat) THEN {i}
    ELSE IF pat[k].at = "start" /\ i # 1 THEN {}
    ELSE IF pat[k].at = "end" /\ i # Len(s) + 1 THEN {}
    ELSE UNION { MatchEnds(s, i + n, pat, k + 1) :
                   n \in pat[k].min..runLength(s, i, pat[k], pat[k].max) }

\* the greatest element of a non-empty set of numbers (a greedy quantifier
\* takes the longest run that lets the rest match)
Greatest(S) == CHOOSE x \in S : \A y \in S : y <= x

\* RegExp.prototype.exec from position from: the leftmost match, the first
\* alternative that matches there, its longest extent; at = 0 without match
reExec(s, re, from) ==
    IF \A i \in from..(Len(s) + 1), a \in 1..Len(re) :
           MatchEnds(s, i, re[a], 1) = {}
    THEN [at |-> 0, alt |-> 0, end |-> 0]
    ELSE CHOOSE m \in
             { [at |-> i, alt |-> a,
                end |-> Greatest(MatchEnds(s, i, re[a], 1) \cup {0})] :
                   i \in from..(Len(s) + 1), a \in 1..Len(re) } :
             /\ m.end # 0
             /\ \A i \in from..(Len(s) + 1), a \in 1..Len(re) :
                    MatchEnds(s, i, re[a], 1) # {} =>
                        \/ m.at < i
                        \/ m.at = i /\ m.alt <= a

\* regex.test(s)
reTest(s, re) == reExec(s, re, 1).at # 0

\* capture group g of the match m: the characters item g of the matching
\* alternative took (the items before and after it match other characters,
\* so each run is the longest one)
reGroup(s, re, m, g) ==
    SubSeq(s, Greatest(MatchEnds(s, m.at, SubSeq(re[m.alt], 1, g - 1), 1)),
           Greatest(MatchEnds(s, m.at, SubSeq(re[m.alt], 1, g), 1)) - 1)

\* s.replace(re, with) without the g flag: the first match is replaced
reReplace(s, re, with) ==
    IF reExec(s, re, 1).at = 0 THEN s
    ELSE SubSeq(s, 1, reExec(s, re, 1).at - 1) \o with
             \o SubSeq(s, reExec(s, re, 1).end, Len(s))

\* 第\s*[...]+\s* with the given numeral class
NumberingPrefix(numerals) ==
    <<Rx({"DI"}, 1, 1), Rx(WhitespaceChars, 0, Unbounded),
      Rx(numerals, 1, Unbounded), Rx(WhitespaceChars, 0, Unbounded)>>

\* [一二三四五六七八九十百\d]
NumeralsWithHundred == ChineseNumerals \cup {"BAI"} \cup Digits

ChapterTypes == {"ZHANG", "BUFEN", "PIAN"}

\* /^第\s*[一二三四五六七八九十百\d]+\s*章/, ...部分/, ...篇/
chapterTypeRegexMap ==
    [type \in ChapterTypes |->
        << <<RxStart>> \o NumberingPrefix(NumeralsWithHundred) \o
           (CASE type = "ZHANG" -> <<Rx({"ZHANG"}, 1, 1)>>
              [] type = "BUFEN" -> <<Rx({"BU"}, 1, 1), Rx({"FEN"}, 1, 1)>>
              [] type = "PIAN" -> <<Rx({"PIAN"}, 1, 1)>>) >>]

\* /^第\s*[一二三四五六七八九十百\d]+\s*(卷|节|条|款)/
excludeTypeRegex ==
    << <<RxStart>> \o NumberingPrefix(NumeralsWithHundred) \o
       <<Rx({"JUAN", "JIE", "TIAO", "KUAN"}, 1, 1)>> >>

\* /(\.{3,}\s*\d+|·{3,}\s*\d+|-\s*\d+\s*-|\s+\d+\s*$)/
tocNoiseRegex ==
    << <<Rx({"."}, 3, Unbounded), Rx(WhitespaceChars, 0, Unbounded),
         Rx(Digits, 1, Unbounded)>>,
       <<Rx({"DOT"}, 3, Unbounded), Rx(WhitespaceChars, 0, Unbounded),
         Rx(Digits, 1, Unbounded)>>,
       <<Rx({"-"}, 1, 1), Rx(WhitespaceChars, 0, Unbounded),
         Rx(Digits, 1, Unbounded), Rx(WhitespaceChars, 0, Unbounded),
         Rx({"-"}, 1, 1)>>,
       <<Rx(WhitespaceChars, 1, Unbounded), Rx(Digits, 1, Unbounded),
         Rx(WhitespaceChars, 0, Unbounded), RxEnd>> >>

\* /\s+\d{1,3}\s*$/: a page number at the end
pageSuffixRegex ==
    << <<Rx(WhitespaceChars, 1, Unbounded), Rx(Digits, 1, 3),
         Rx(WhitespaceChars, 0, Unbounded), RxEnd>> >>

\* /^(第\s*[一二三四五六七八九十百\d]+\s*[章节篇部]).+\s+\d{1,3}\s*$/
tocPageNumberRegex ==
    << <<RxStart>> \o NumberingPrefix(NumeralsWithHundred) \o
       <<Rx(UnitChars, 1, 1),
         [cls |-> {}, neg |-> TRUE, min |-> 1, max |-> Unbounded,
          at |-> "any"]>> \o pageSuffixRegex[1] >>

\* /_{2,}|\[\s*\]|（\s*）/g
blankPattern ==
    << <<Rx({"_"}, 2, Unbounded)>>,
       <<Rx({"["}, 1, 1), Rx(WhitespaceChars, 0, Unbounded),
         Rx({"]"}, 1, 1)>>,
       <<Rx({"("}, 1, 1), Rx(WhitespaceChars, 0, Unbounded),
         Rx({")"}, 1, 1)>> >>

\* /^第\s*[一二三四五六七八九十百\d]+\s*(章|部分|篇)/
tocChapterRegex ==
    << chapterTypeRegexMap["ZHANG"][1], chapterTypeRegexMap["BUFEN"][1],
       chapterTypeRegexMap["PIAN"][1] >>

\* text.match(/第\s*([一二三四五六七八九十百\d]+)\s*[章部篇]/): group 1,
\* NULL without match
extractChapterNum(text) ==
    LET re == << NumberingPrefix(NumeralsWithHundred) \o
                 <<Rx({"ZHANG", "BU", "PIAN"}, 1, 1)>> >>
        m == reExec(text, re, 1)
    IN  IF m.at = 0 THEN NULL ELSE reGroup(text, re, m, 3)

\* title.replace(/\s+\d{1,3}\s*$/, '').replace(/\s+/g, '').toLowerCase()
normalizeTitle(title) ==
    toLowerCase(removeWhitespace(reReplace(title, pageSuffixRegex, <<>>)))

\* a table-of-contents line without its leaders and page number:
\* .replace(/[\.·…]+\s*\d*\s*$/, '').replace(/\s+\d{1,3}\s*$/, '').trim()
cleanTitle(text) ==
    trim(reReplace(
        reReplace(text,
                  << <<Rx({".", "DOT", "ELLIPSIS"}, 1, Unbounded),
                       Rx(WhitespaceChars, 0, Unbounded),
                       Rx(Digits, 0, Unbounded),
                       Rx(WhitespaceChars, 0, Unbounded), RxEnd>> >>,
                  <<>>),
        pageSuffixRegex, <<>>))

----------------------------------------------------------------------------
(* The structurer: extractPerfectStructure *)

(***************************************************************************)
(* A child of body is a record [tagName, text, strong]: its tag, its       *)
(* textContent and whether it has a strong or b descendant.  Markup is a   *)
(* sequence of characters in which a tag is one element, "<p>" or "</p>".  *)
(***************************************************************************)
IsTag(c) == c \in {"<p>", "</p>", "<h1>", "</h1>", "<table>", "</table>",
                   "<strong>", "</strong>", "<span>", "</span>"}

\* child.outerHTML
outerHTML(child) ==
    LET open == CASE child.tagName = "P" -> "<p>"
                  [] child.tagName = "H1" -> "<h1>"
                  [] child.tagName = "TABLE" -> "<table>"
        close == CASE child.tagName = "P" -> "</p>"
                   [] child.tagName = "H1" -> "</h1>"
                   [] child.tagName = "TABLE" -> "</table>"
    IN  IF child.strong
        THEN <<open, "<strong>">> \o child.text \o <<"</strong>", close>>
        ELSE <<open>> \o child.text \o <<close>>

\* result.value of the converter: the markup of all children
htmlOf(children) ==
    LET RECURSIVE concat(_)
        concat(i) == IF i > Len(children) THEN <<>>
                     ELSE outerHTML(children[i]) \o concat(i + 1)
    IN  concat(1)

\* child.textContent?.trim() || ''
textOf(child) == trim(child.text)

\* counts[type]: the children whose text matches the regex of the type
countChapterTypes(children) ==
    [type \in ChapterTypes |->
        Cardinality({i \in 1..Len(children) :
                        /\ textOf(children[i]) # <<>>
                        /\ reTest(textOf(children[i]),
                                  chapterTypeRegexMap[type])})]

\* the type that occurs most often among those that occur three times
detectAndSelectChapterType_most(counts, choiceIndex) ==
    IF counts["BUFEN"] >= 3 /\ counts["BUFEN"] >= counts["PIAN"] THEN "BUFEN"
    ELSE IF counts["PIAN"] >= 3 THEN "PIAN"
    ELSE "ZHANG"

\* detectAndSelectChapterType; choiceIndex is parseInt(choice || '1') - 1
\* of the answer to window.prompt (-1 for NaN)
detectAndSelectChapterType(counts, choiceIndex) ==
    LET \* Object.entries order, filtered by count >= 3, sorted by count
        \* descending: the types with the greatest count come first
        valid == {t \in ChapterTypes : counts[t] >= 3}
        top == {t \in valid : \A u \in valid : counts[u] <= counts[t]}
        entries == <<"ZHANG", "BUFEN", "PIAN">>
        topTypes == SelectSeq(entries, LAMBDA t : t \in top)
    IN  IF counts["ZHANG"] >= 2 THEN "ZHANG"
        ELSE IF valid = {} THEN "ZHANG"
        ELSE IF choiceIndex >= 0 /\ choiceIndex < Len(topTypes)
                  /\ Cardinality(valid) > 1 /\ Len(topTypes) > 1
             THEN topTypes[choiceIndex + 1]
             ELSE topTypes[1]

\* window.prompt is called: 章 occurs less than twice and several types
\* occur three times or more with the same, greatest, count
promptShown(counts) ==
    /\ counts["ZHANG"] < 2
    /\ Cardinality({t \in ChapterTypes :
           /\ counts[t] >= 3
           /\ \A u \in ChapterTypes : counts[u] >= 3 => counts[u] <= counts[t]})
         > 1

\* the inner while loop of the table-of-contents detection from child j:
\* the children collected as consecutive titles, and the child it stops at
RECURSIVE tocRun(_, _, _, _)
tocRun(children, j, seenChapterNums, consecutiveTitles) ==
    IF j > Len(children)
    THEN [j |-> j, consecutiveTitles |-> consecutiveTitles]
    ELSE IF Len(textOf(children[j])) < 5
              \/ reTest(textOf(children[j]), excludeTypeRegex)
    THEN tocRun(children, j + 1, seenChapterNums, consecutiveTitles)
    ELSE IF reTest(textOf(children[j]), tocChapterRegex)
              /\ ~(Truthy(extractChapterNum(textOf(children[j])))
                   /\ extractChapterNum(textOf(children[j]))
                          \in seenChapterNums)
    THEN tocRun(children, j + 1,
                seenChapterNums \cup
                    (IF Truthy(extractChapterNum(textOf(children[j])))
                     THEN {extractChapterNum(textOf(children[j]))}
                     ELSE {}),
                Append(consecutiveTitles, j))
    ELSE [j |-> j, consecutiveTitles |-> consecutiveTitles]

\* tocChapterTitles after the titles of a detected region were pushed
RECURSIVE pushTocTitles(_, _, _, _)
pushTocTitles(children, tocChapterTitles, consecutiveTitles, k) ==
    IF k > Len(consecutiveTitles) THEN tocChapterTitles
    ELSE pushTocTitles(
             children,
             IF /\ cleanTitle(textOf(children[consecutiveTitles[k]])) # <<>>
                /\ \A t \in 1..Len(tocChapterTitles) :
                       tocChapterTitles[t]
                           # cleanTitle(textOf(children[consecutiveTitles[k]]))
             THEN Append(tocChapterTitles,
                         cleanTitle(textOf(children[consecutiveTitles[k]])))
             ELSE tocChapterTitles,
             consecutiveTitles, k + 1)

\* if (consecutiveCount >= 3)
isTocRegion(consecutiveTitles) == Len(consecutiveTitles) >= 3

\* the table-of-contents detection loop from child i: tocIndices and
\* tocChapterTitles at its end
RECURSIVE tocScan(_, _, _, _)
tocScan(children, i, tocIndices, tocChapterTitles) ==
    IF i > Len(children)
    THEN [tocIndices |-> tocIndices, tocChapterTitles |-> tocChapterTitles]
    ELSE IF reTest(textOf(children[i]), excludeTypeRegex)
              \/ ~reTest(textOf(children[i]), tocChapterRegex)
    THEN tocScan(children, i + 1, tocIndices, tocChapterTitles)
    ELSE LET run == tocRun(children, i + 1,
                           IF Truthy(extractChapterNum(textOf(children[i])))
                           THEN {extractChapterNum(textOf(children[i]))}
                           ELSE {},
                           <<i>>)
         IN  IF isTocRegion(run.consecutiveTitles)
             THEN tocScan(children, run.j,
                          tocIndices \cup
                              {run.consecutiveTitles[k] :
                                   k \in 1..Len(run.consecutiveTitles)},
                          pushTocTitles(children, tocChapterTitles,
                                        run.consecutiveTitles, 1))
             ELSE tocScan(children, i + 1, tocIndices, tocChapterTitles)

INTRO_ID == "intro"

\* '文件封面/前言'
INTRO_TITLE == <<"WEN", "JIAN", "FENG", "MIAN", "/", "QIAN", "YAN">>

\* the walk state once currentChapter is the front-matter chapter, which is
\* created when there is no current chapter
ensureIntro(w) ==
    IF w.currentChapter # 0 THEN w
    ELSE [w EXCEPT !.chapters = Append(@, Chapter(INTRO_ID, INTRO_TITLE, <<>>)),
                   !.currentChapter = Len(w.chapters) + 1]

addToIntro_drop(w, html) == ensureIntro(w)

\* addToIntro(html): the markup is added only while the current chapter is
\* the front-matter chapter
addToIntro(w, html) ==
    IF ensureIntro(w).chapters[ensureIntro(w).currentChapter].id = INTRO_ID
    THEN [ensureIntro(w) EXCEPT
              !.chapters[ensureIntro(w).currentChapter].content = @ \o html]
    ELSE ensureIntro(w)

\* itemHtml.replace(blankPattern, match => <span ...>match</span>) from
\* position from on
RECURSIVE highlightBlanks(_, _)
highlightBlanks(itemHtml, from) ==
    IF reExec(itemHtml, blankPattern, from).at = 0 THEN itemHtml
    ELSE highlightBlanks(
             SubSeq(itemHtml, 1, reExec(itemHtml, blankPattern, from).at - 1)
                 \o <<"<span>">>
                 \o SubSeq(itemHtml, reExec(itemHtml, blankPattern, from).at,
                           reExec(itemHtml, blankPattern, from).end - 1)
                 \o <<"</span>">>
                 \o SubSeq(itemHtml,
                           reExec(itemHtml, blankPattern, from).end,
                           Len(itemHtml)),
             reExec(itemHtml, blankPattern, from).end + 2)

\* const isChapterHeading = matchesRegex && (hasVisualWeight || isShortTitle)
isChapterHeading(child, chapterRegex) ==
    /\ reTest(textOf(child), chapterRegex)
    /\ \/ child.tagName \in {"H1", "H2", "H3"}
       \/ child.strong
       \/ Len(textOf(child)) < 50

\* seenTitles.has(normalizedTitle)
seenTitle_never(seenTitles, title) == FALSE

seenTitle(seenTitles, title) == normalizeTitle(title) \in seenTitles

\* step 1, noise filtering: the child is in the table-of-contents region,
\* or looks like a table-of-contents line, or is a title ending in a page
\* number
isTocNoise(child, index, tocIndices) ==
    \/ index \in tocIndices
    \/ Len(textOf(child)) > 3 /\ reTest(textOf(child), tocNoiseRegex)
    \/ reTest(textOf(child), tocPageNumberRegex)

\* the callback of children.forEach for the child at index; w holds
\* chapters, currentChapter (its index in chapters, 0 for null) and
\* seenTitles
walkChild(w, child, index, tocIndices, chapterRegex) ==
    IF textOf(child) = <<>> /\ child.tagName # "TABLE" THEN w
    ELSE IF isTocNoise(child, index, tocIndices)
    THEN addToIntro(w, outerHTML(child))
    ELSE IF isChapterHeading(child, chapterRegex)
    THEN IF seenTitle(w.seenTitles, textOf(child)) THEN w
         ELSE [chapters |->
                   Append(w.chapters,
                          Chapter("chapter-" \o ToString(Len(w.chapters)),
                                  textOf(child), <<>>)),
               currentChapter |-> Len(w.chapters) + 1,
               seenTitles |->
                   w.seenTitles \cup {normalizeTitle(textOf(child))}]
    ELSE [ensureIntro(w) EXCEPT
              !.chapters[ensureIntro(w).currentChapter].content =
                  @ \o (IF child.tagName \in {"P", "SPAN", "H1", "H2", "H3"}
                        THEN highlightBlanks(outerHTML(child), 1)
                        ELSE outerHTML(child))]

\* children.forEach(...) from the child at index on
RECURSIVE walk(_, _, _, _, _)
walk(w, children, index, tocIndices, chapterRegex) ==
    IF index > Len(children) THEN w
    ELSE walk(walkChild(w, children[index], index, tocIndices, chapterRegex),
              children, index + 1, tocIndices, chapterRegex)

MIN_CONTENT_LENGTH == 200

\* c.content.replace(/<[^>]*>/g, '').trim().length
contentLength(c) ==
    Len(trim(SelectSeq(c.content, LAMBDA ch : ~IsTag(ch))))

keptByContent_strict(c) ==
    IF c.id = INTRO_ID THEN contentLength(c) > 0
    ELSE contentLength(c) > MIN_CONTENT_LENGTH

\* the filter that yields contentFilteredChapters
keptByContent(c) ==
    IF c.id = INTRO_ID THEN contentLength(c) > 0
    ELSE contentLength(c) >= MIN_CONTENT_LENGTH

\* getChapterNumber has no number for the title
NO_NUMBER == -1

\* parseInt of a string of digits
RECURSIVE parseInt(_)
parseInt(numStr) ==
    IF numStr = <<>> THEN 0
    ELSE 10 * parseInt(SubSeq(numStr, 1, Len(numStr) - 1))
             + (CHOOSE v \in 0..9 : DigitChar(v) = numStr[Len(numStr)])

\* CHINESE_NUM_MAP[numStr] || null: 一 .. 十, 十一 .. 十九, 二十
CHINESE_NUM_MAP(numStr) ==
    IF Len(numStr) = 1
    THEN CHOOSE v \in 1..10 : "CN" \o ToString(v) = numStr[1]
    ELSE IF Len(numStr) = 2 /\ numStr[1] = "CN10" /\ numStr[2] # "CN10"
    THEN 10 + (CHOOSE v \in 1..9 : "CN" \o ToString(v) = numStr[2])
    ELSE IF numStr = <<"CN2", "CN10">> THEN 20
    ELSE NO_NUMBER

\* title.match(/第\s*([一二三四五六七八九十]+|\d+)\s*[章节篇部]/)
getChapterNumber(title) ==
    LET re == << NumberingPrefix(ChineseNumerals) \o <<Rx(UnitChars, 1, 1)>>,
                 NumberingPrefix(Digits) \o <<Rx(UnitChars, 1, 1)>> >>
        m == reExec(title, re, 1)
    IN  IF m.at = 0 THEN NO_NUMBER
        ELSE IF m.alt = 2 THEN parseInt(reGroup(title, re, m, 3))
        ELSE CHINESE_NUM_MAP(reGroup(title, re, m, 3))

\* chaptersWithNum.sort((a, b) => a.num - b.num): a stable sort
sortByNum(items) ==
    [k \in 1..Len(items) |->
        items[CHOOSE i \in 1..Len(items) :
                  Cardinality({j \in 1..Len(items) :
                                  \/ items[j].num < items[i].num
                                  \/ items[j].num = items[i].num /\ j <= i})
                      = k]]

\* the continuity loop over chaptersWithNum from item k on
RECURSIVE continuousFrom(_, _, _, _)
continuousFrom(chaptersWithNum, k, continuousChapters, expectedNum) ==
    IF k > Len(chaptersWithNum) THEN continuousChapters
    ELSE IF continuousChapters = <<>> /\ chaptersWithNum[k].num # 1
    THEN continuousFrom(chaptersWithNum, k + 1, continuousChapters,
                        expectedNum)
    ELSE IF /\ expectedNum <= chaptersWithNum[k].num
            /\ chaptersWithNum[k].num <= expectedNum + 2
    THEN continuousFrom(chaptersWithNum, k + 1,
                        Append(continuousChapters,
                               chaptersWithNum[k].chapter),
                        chaptersWithNum[k].num + 1)
    ELSE continuousFrom(chaptersWithNum, k + 1, continuousChapters,
                        expectedNum)

\* title.replace(/\s+/g, '')
\*      .replace(/第([一二三四五六七八九十\d]+)[章节篇部分]/, '第$1章')
normalizeTitleForMatch(title) ==
    LET re == << <<Rx({"DI"}, 1, 1),
                   Rx(ChineseNumerals \cup Digits, 1, Unbounded),
                   Rx(UnitChars \cup {"FEN"}, 1, 1)>> >>
        s == removeWhitespace(title)
        m == reExec(s, re, 1)
    IN  IF m.at = 0 THEN s
        ELSE SubSeq(s, 1, m.at - 1) \o <<"DI">> \o reGroup(s, re, m, 2)
                 \o <<"ZHANG">> \o SubSeq(s, m.end, Len(s))

\* the test of sourceChapters.find(...) on the two normalized titles
tocTitleMatches(normalizedChapter, normalizedToc) ==
    \/ normalizedChapter = normalizedToc
    \/ includes(normalizedChapter, normalizedToc)
    \/ includes(normalizedToc, normalizedChapter)

\* finalChapters.push(matchedChapter) unless there is none or it is in
\* finalChapters already; chapters are given by their index in
\* sourceChapters, 0 for no match
pushMatched(finalChapters, matchedChapter) ==
    IF /\ matchedChapter # 0
       /\ \A f \in 1..Len(finalChapters) : finalChapters[f] # matchedChapter
    THEN Append(finalChapters, matchedChapter)
    ELSE finalChapters

\* the loop over tocChapterTitles from title k on: the indices in
\* sourceChapters of the chapters pushed into finalChapters
RECURSIVE tocMatched(_, _, _, _)
tocMatched(tocChapterTitles, sourceChapters, k, finalChapters) ==
    IF k > Len(tocChapterTitles) THEN finalChapters
    ELSE tocMatched(
             tocChapterTitles, sourceChapters, k + 1,
             pushMatched(
                 finalChapters,
                 FirstIndex({c \in 1..Len(sourceChapters) :
                     tocTitleMatches(
                         normalizeTitleForMatch(sourceChapters[c].title),
                         normalizeTitleForMatch(tocChapterTitles[k]))})))

\* the fallback taken when fewer than half of the entries were matched
finalChaptersOf_byEntries(tocChapterTitles, sourceChapters, matched) ==
    IF Len(tocChapterTitles) >= 3
         /\ ~(2 * Len(matched) < Len(tocChapterTitles))
    THEN [f \in 1..Len(matched) |-> sourceChapters[matched[f]]]
    ELSE sourceChapters

\* finalChapters, given the indices the loop over tocChapterTitles pushed
finalChaptersOf(tocChapterTitles, sourceChapters, matched) ==
    IF Len(tocChapterTitles) >= 3
         /\ ~(2 * Len(matched) < Len(sourceChapters))
    THEN [f \in 1..Len(matched) |-> sourceChapters[matched[f]]]
    ELSE sourceChapters

\* if (chapters.length === 1 && chapters[0].id === 'intro'
\*     && !chapters[0].content) chapters[0].content = html
wholeDocumentFallback(chapters, html) ==
    IF Len(chapters) = 1 /\ chapters[1].id = INTRO_ID
         /\ chapters[1].content = <<>>
    THEN <<[chapters[1] EXCEPT !.content = html]>>
    ELSE chapters

\* chaptersWithNum, sorted
chaptersWithNumOf(numberedChapters) ==
    sortByNum(SelectSeq(
        [k \in 1..Len(numberedChapters) |->
            [chapter |-> numberedChapters[k],
             num |-> getChapterNumber(numberedChapters[k].title)]],
        LAMBDA item : item.num # NO_NUMBER))

\* continuousChapters.length > 0 ? continuousChapters
\*                               : chaptersWithNum.map(item => item.chapter)
sourceChaptersOf(chaptersWithNum, continuousChapters) ==
    IF Len(continuousChapters) > 0 THEN continuousChapters
    ELSE [k \in 1..Len(chaptersWithNum) |-> chaptersWithNum[k].chapter]

\* the chapters of the result, from the continuity check on
validatedChapters(chaptersWithNum, tocChapterTitles) ==
    finalChaptersOf(
        tocChapterTitles,
        sourceChaptersOf(chaptersWithNum,
                         continuousFrom(chaptersWithNum, 1, <<>>, 1)),
        tocMatched(tocChapterTitles,
                   sourceChaptersOf(chaptersWithNum,
                                    continuousFrom(chaptersWithNum, 1, <<>>,
                                                   1)),
                   1, <<>>))

\* filteredChapters: the front-matter chapter, if kept, and finalChapters
filteredChaptersOf(contentFilteredChapters, tocChapterTitles) ==
    SelectSeq(contentFilteredChapters, LAMBDA c : c.id = INTRO_ID)
        \o validatedChapters(
               chaptersWithNumOf(SelectSeq(contentFilteredChapters,
                                           LAMBDA c : c.id # INTRO_ID)),
               tocChapterTitles)

\* the result of the steps after the detection of the table of contents
structureWith(children, chapterRegex, toc) ==
    [chapters |->
         filteredChaptersOf(
             SelectSeq(
                 wholeDocumentFallback(
                     walk([chapters |-> <<>>, currentChapter |-> 0,
                           seenTitles |-> {}],
                          children, 1, toc.tocIndices, chapterRegex).chapters,
                     htmlOf(children)),
                 keptByContent),
             toc.tocChapterTitles),
     rawHtml |-> htmlOf(children)]

\* extractPerfectStructure on the children of body, from the conversion of
\* the file to the ParsedDocument it resolves with (without the file name)
extractPerfectStructure(children, choiceIndex) ==
    structureWith(
        children,
        chapterTypeRegexMap[
            detectAndSelectChapterType(countChapterTypes(children),
                                       choiceIndex)],
        tocScan(children, 1, {}, <<>>))

----------------------------------------------------------------------------
(* Documents given to the structurer *)

Node(tagName, text, strong) ==
    [tagName |-> tagName, text |-> text, strong |-> strong]

\* a paragraph of n characters of running text
BodyText(n) == [i \in 1..n |-> IF i % 7 = 0 THEN " " ELSE "x"]

\* the heading 第k章 followed by a name
HeadingText(k, name) == <<"DI", "CN" \o ToString(k), "ZHANG", " ">> \o name

NameOverview == <<"GAI", "SHU">>

NameInstructions == <<"TOU", "BIAO", "REN", "XU", "ZHI">>

NameContract == <<"HE", "TONG">>

\* a chapter: its heading and one paragraph of n characters
ChapterBlock(k, name, n) ==
    <<Node("P", HeadingText(k, name), FALSE), Node("P", BodyText(n), FALSE)>>

\* a table of contents: three lines with leaders and page numbers
TocBlock ==
    <<Node("P", HeadingText(1, NameOverview) \o <<".", ".", ".", "1">>, FALSE),
      Node("P", HeadingText(2, NameInstructions) \o <<".", ".", ".", "5">>,
           FALSE),
      Node("P", HeadingText(3, NameContract), FALSE)>>

Blocks ==
    { <<Node("P", BodyText(30), FALSE)>>,
      ChapterBlock(1, NameOverview, 200),
      ChapterBlock(2, NameInstructions, 200),
      ChapterBlock(3, NameContract, 230),
      ChapterBlock(2, NameOverview, 210),
      ChapterBlock(6, NameContract, 220),
      TocBlock }

MaxBlocks == 3

\* the documents: up to MaxBlocks blocks in any order, repeats included
RECURSIVE BlockSeqs(_)
BlockSeqs(n) ==
    IF n = 0 THEN {<<>>}
    ELSE BlockSeqs(n - 1) \cup
         { Append(q, b) : q \in { p \in BlockSeqs(n - 1) : Len(p) = n - 1 },
                          b \in Blocks }

RECURSIVE Flatten(_)
Flatten(blocks) ==
    IF blocks = <<>> THEN <<>> ELSE Head(blocks) \o Flatten(Tail(blocks))

StructDocs == { Flatten(q) : q \in BlockSeqs(MaxBlocks) }

\* a document in which 部分 and 篇 both occur three times: the structurer
\* asks the user which one is the main structure
TieDoc ==
    Flatten([k \in 1..6 |->
        <<Node("P", <<"DI", "CN" \o ToString(((k - 1) % 3) + 1)>>
                        \o (IF k <= 3 THEN <<"BU", "FEN">> ELSE <<"PIAN">>)
                        \o <<" ">> \o NameOverview,
               FALSE),
          Node("P", BodyText(200 + k), FALSE)>>])

\* a document whose table of contents and body have a chapter numbered
\* 二十一, after the chapters 一 and 二
TocLateNumberDoc ==
    <<Node("P", HeadingText(1, NameOverview) \o <<".", ".", ".", "1">>, FALSE),
      Node("P", HeadingText(2, NameInstructions) \o <<".", ".", ".", "5">>,
           FALSE),
      Node("P", <<"DI", "CN2", "CN10", "CN1", "ZHANG", " ">> \o NameContract,
           FALSE)>>
        \o ChapterBlock(1, NameOverview, 200)
        \o ChapterBlock(2, NameInstructions, 200)
        \o <<Node("P", <<"DI", "CN2", "CN10", "CN1", "ZHANG", " ">>
                          \o NameContract, FALSE),
              Node("P", BodyText(230), FALSE)>>

\* parseInt(choice || '1') - 1 of the answers to window.prompt
PromptAnswers == {-1, 0, 1, 2}

StructInit ==
    /\ bodyChildren \in StructDocs \cup {TieDoc, TocLateNumberDoc}
    /\ activeChapterType = NotCalled
    /\ parsed = NotCalled
    /\ RunParked
    /\ CFParked
    /\ AppParked
    /\ TableParked
    /\ RiskParked
    /\ AnalysisParked

CallExtractPerfectStructure ==
    /\ parsed = NotCalled
    /\ \E choiceIndex \in IF promptShown(countChapterTypes(bodyChildren))
                          THEN PromptAnswers ELSE {0} :
           /\ activeChapterType' =
                  [value |-> detectAndSelectChapterType(
                                 countChapterTypes(bodyChildren), choiceIndex),
                   choiceIndex |-> choiceIndex]
           /\ parsed' = extractPerfectStructure(bodyChildren, choiceIndex)
    /\ UNCHANGED <<bodyChildren, cfVars, runVars, appVars, tableVars, riskVars,
                   analysisVars>>

StructNext == CallExtractPerfectStructure

SpecStruct == StructInit /\ [][StructNext]_vars

----------------------------------------------------------------------------
(* Chapter-type selection on documents of headings *)

\* the words of the chapter types
typeWord(type) ==
    CASE type = "ZHANG" -> <<"ZHANG">>
      [] type = "BUFEN" -> <<"BU", "FEN">>
      [] type = "PIAN" -> <<"PIAN">>

\* n headings 第k<type> 概述, each followed by a paragraph
TypeHeadings(type, n) ==
    Flatten([k \in 1..n |->
        <<Node("P", <<"DI", "CN" \o ToString(k)>> \o typeWord(type)
                        \o <<" ">> \o NameOverview,
               FALSE),
          Node("P", BodyText(20), FALSE)>>])

\* the documents: up to MaxOccurrences headings of each type
TypeDocs ==
    { TypeHeadings("PIAN", p) \o TypeHeadings("ZHANG", z)
          \o TypeHeadings("BUFEN", b) :
        z \in 0..MaxOccurrences, b \in 0..MaxOccurrences,
        p \in 0..MaxOccurrences }

SelectInit ==
    /\ bodyChildren \in TypeDocs
    /\ activeChapterType = NotCalled
    /\ parsed = NotCalled
    /\ RunParked
    /\ CFParked
    /\ AppParked
    /\ TableParked
    /\ RiskParked
    /\ AnalysisParked

\* activeChapterType = await detectAndSelectChapterType()
DetectAndSelectChapterType ==
    /\ activeChapterType = NotCalled
    /\ \E choiceIndex \in IF promptShown(countChapterTypes(bodyChildren))
                          THEN PromptAnswers ELSE {0} :
           activeChapterType' =
               [value |-> detectAndSelectChapterType(
                              countChapterTypes(bodyChildren), choiceIndex),
                choiceIndex |-> choiceIndex]
    /\ UNCHANGED <<bodyChildren, parsed, cfVars, runVars, appVars, tableVars,
                   riskVars, analysisVars>>

SelectNext == DetectAndSelectChapterType

SpecSelect == SelectInit /\ [][SelectNext]_vars

----------------------------------------------------------------------------
(* Claims about the structurer *)

\* extractPerfectStructure has returned
structured == parsed # NotCalled

\* the chapters other than the front-matter chapter
nonFront(chapters) == SelectSeq(chapters, LAMBDA c : c.id # INTRO_ID)

hasFront(chapters) == \E k \in 1..Len(chapters) : chapters[k].id = INTRO_ID

\* the children that pass the noise filter and are chapter headings
headingIndices(children, tocIndices, chapterRegex) ==
    {i \in 1..Len(children) :
        /\ textOf(children[i]) # <<>>
        /\ ~isTocNoise(children[i], i, tocIndices)
        /\ isChapterHeading(children[i], chapterRegex)}

\* the elements of a set of numbers in ascending order
ascending(S) ==
    [k \in 1..Cardinality(S) |->
        CHOOSE i \in S : Cardinality({j \in S : j < i}) = k - 1]

\* every heading is followed by a paragraph of at least 200 characters
wellFormedHeadings(children, heads) ==
    /\ heads # {}
    /\ \A i \in heads :
           /\ i < Len(children)
           /\ (i + 1) \notin heads
           /\ Len(textOf(children[i + 1])) >= MIN_CONTENT_LENGTH

\* the k-th heading has the chapter number k
consecutiveFromOne(children, heads) ==
    \A i \in heads :
        getChapterNumber(textOf(children[i]))
            = Cardinality({j \in heads : j <= i})

\* one chapter per heading, in heading order, and a front-matter chapter
\* only if a child precedes the first heading
onePerHeading(children, heads, chapters) ==
    /\ [k \in 1..Len(nonFront(chapters)) |-> nonFront(chapters)[k].title]
           = [k \in 1..Cardinality(heads) |->
                  textOf(children[ascending(heads)[k]])]
    /\ hasFront(chapters) => 1 \notin heads

\* the document has no table of contents and no prompt for the chapter type
\* is shown
plainDocument ==
    /\ ~promptShown(countChapterTypes(bodyChildren))
    /\ tocScan(bodyChildren, 1, {}, <<>>).tocIndices = {}

chapterNumbers(chapters) ==
    [k \in 1..Len(nonFront(chapters)) |->
        getChapterNumber(nonFront(chapters)[k].title)]

\* C15: the non-front chapters of the result, in output order, have strictly
\* increasing chapter numbers, each at most the forward tolerance of 2 above
\* the number expected after the previous chapter (its number + 1)
C15_NumbersIncreaseWithinTolerance ==
    structured =>
        \A nums \in {chapterNumbers(parsed.chapters)} :
            \A k \in 1..(Len(nums) - 1) :
                /\ nums[k] < nums[k + 1]
                /\ nums[k + 1] <= (nums[k] + 1) + 2

\* a title with its numbering (第X章, 第X部分, 第X篇) and whitespace stripped
titleWithoutNumbering(title) ==
    removeWhitespace(reReplace(title, tocChapterRegex, <<>>))

\* C16 as stated: no two chapters of the result share a normalized title,
\* the title with numbering and whitespace stripped
C16_NoSharedTitleWithoutNumbering ==
    structured =>
        \A i, j \in 1..Len(parsed.chapters) :
            i # j => titleWithoutNumbering(parsed.chapters[i].title)
                         # titleWithoutNumbering(parsed.chapters[j].title)

\* C16, amended: no two chapters of the result share a title normalized as
\* normalizeTitle does (trailing page number and whitespace removed, lower
\* case, numbering kept)
C16_NoSharedNormalizedTitle ==
    structured =>
        \A i, j \in 1..Len(parsed.chapters) :
            i # j => normalizeTitle(parsed.chapters[i].title)
                         # normalizeTitle(parsed.chapters[j].title)

\* a document with two headings of the same normalized title was structured
\* and the title is a chapter of the result
C16_Witness ==
    /\ structured
    /\ \E heads \in {headingIndices(
                         bodyChildren,
                         tocScan(bodyChildren, 1, {}, <<>>).tocIndices,
                         chapterTypeRegexMap["ZHANG"])} :
           \E i, j \in heads :
               /\ i < j
               /\ normalizeTitle(textOf(bodyChildren[i]))
                      = normalizeTitle(textOf(bodyChildren[j]))
               /\ \E k \in 1..Len(parsed.chapters) :
                      parsed.chapters[k].title = textOf(bodyChildren[i])

\* the content of the front-matter chapter, empty when there is none
frontContent(chapters) ==
    IF hasFront(chapters)
    THEN chapters[FirstIndex({k \in 1..Len(chapters) :
                                 chapters[k].id = INTRO_ID})].content
    ELSE <<>>

\* the number of occurrences of needle in haystack
occurrences(haystack, needle) ==
    Cardinality({p \in 1..Len(haystack) :
        /\ p + Len(needle) - 1 <= Len(haystack)
        /\ SubSeq(haystack, p, p + Len(needle) - 1) = needle})

\* the table-of-contents region ends before a heading that repeats one of
\* its chapter numbers
followedByRepeat(children, tocIndices) ==
    \E i \in tocIndices :
        /\ i < Len(children)
        /\ (i + 1) \notin tocIndices
        /\ reTest(textOf(children[i + 1]), tocChapterRegex)
        /\ \E t \in tocIndices :
               extractChapterNum(textOf(children[t]))
                   = extractChapterNum(textOf(children[i + 1]))

\* no node of the region is a chapter: there are no more non-front chapters
\* than headings outside the region
noTocChapter(children, tocIndices, chapters) ==
    Len(nonFront(chapters))
        <= Cardinality(headingIndices(children, tocIndices,
                                      chapterTypeRegexMap["ZHANG"]))

\* every node of the region is in the front-matter chapter
allInFront(children, tocIndices, chapters) ==
    \A i \in tocIndices :
        includes(frontContent(chapters), outerHTML(children[i]))

\* the nodes of the region before the first accepted heading are in the
\* front-matter chapter, the nodes after it are in no chapter
inFrontOrDropped(children, tocIndices, heads, chapters) ==
    /\ \A i \in tocIndices :
           occurrences(frontContent(chapters), outerHTML(children[i]))
               = Cardinality({t \in tocIndices :
                     /\ outerHTML(children[t]) = outerHTML(children[i])
                     /\ \A h \in heads : t < h})
    /\ \A i \in tocIndices, k \in 1..Len(nonFront(chapters)) :
           ~includes(nonFront(chapters)[k].content, outerHTML(children[i]))

zeroHeadings(children, tocIndices) ==
    \A type \in ChapterTypes :
        headingIndices(children, tocIndices, chapterTypeRegexMap[type]) = {}

\* the characters of markup outside its tags
textOfHtml(html) == SelectSeq(html, LAMBDA ch : ~IsTag(ch))

\* C18: for an input with zero accepted headings, a document with zero nodes
\* included, the result is exactly one chapter, the front-matter chapter,
\* holding the document's content
C18_SingleFrontChapter ==
    structured
        /\ zeroHeadings(bodyChildren,
                        tocScan(bodyChildren, 1, {}, <<>>).tocIndices)
    => /\ Len(parsed.chapters) = 1
       /\ hasFront(parsed.chapters)
       /\ textOfHtml(frontContent(parsed.chapters))
              = textOfHtml(htmlOf(bodyChildren))

\* the k of the id chapter-k: the number of chapters created before this
\* one, which grows with the position of the heading in the document
createdAfter(id) ==
    CHOOSE k \in 0..Len(bodyChildren) : id = "chapter-" \o ToString(k)

\* C19: the chapters of the result are ordered by their position in the
\* document, and there is at most one front-matter chapter, the first
\* element when present
C19_DocumentOrder ==
    structured =>
        /\ \A k \in 2..Len(parsed.chapters) :
               parsed.chapters[k].id # INTRO_ID
        /\ \A chapters \in {nonFront(parsed.chapters)} :
               \A k \in 1..(Len(chapters) - 1) :
                   createdAfter(chapters[k].id)
                       < createdAfter(chapters[k + 1].id)

----------------------------------------------------------------------------
(* Step B: extractFromTable of extractBasicInfoByRegex *)

\* '万元' and '元'
WAN_YUAN == <<"WAN", "YUAN">>

YUAN == <<"YUAN">>

\* s.replace(/\s+/g, ' ')
RECURSIVE collapseWhitespace(_)
collapseWhitespace(s) ==
    IF s = <<>> THEN <<>>
    ELSE IF ~IsWhitespace(Head(s)) THEN <<Head(s)>> \o collapseWhitespace(Tail(s))
    ELSE IF Len(s) > 1 /\ IsWhitespace(s[2]) THEN collapseWhitespace(Tail(s))
    ELSE <<" ">> \o collapseWhitespace(Tail(s))

\* cellMatch[1].replace(/<[^>]*>/g, '').replace(/\s+/g, ' ').trim()
cellText(inner) ==
    trim(collapseWhitespace(SelectSeq(inner, LAMBDA ch : ~IsTag(ch))))

\* rows: the cell texts of every <tr> that has a cell
rowsOf(table) ==
    SelectSeq([r \in 1..Len(table) |->
                  [c \in 1..Len(table[r]) |-> cellText(table[r][c])]],
              LAMBDA cells : Len(cells) > 0)

\* [\d,，.]
AmountChars == Digits \cup {",", "CN_COMMA", "."}

\* /^[\d,，.]+$/
numericCellRegex == << <<RxStart, Rx(AmountChars, 1, Unbounded), RxEnd>> >>

\* /^[\d,，.]+\s*(万?元?)?$/
amountCellRegex ==
    << <<RxStart, Rx(AmountChars, 1, Unbounded),
         Rx(WhitespaceChars, 0, Unbounded), Rx({"WAN"}, 0, 1),
         Rx({"YUAN"}, 0, 1), RxEnd>> >>

\* some pattern of labelPatterns matches the cell
matchesLabel(cell, labelPatterns) ==
    \E p \in 1..Len(labelPatterns) : reTest(cell, labelPatterns[p])

\* the least pair or triple of a non-empty set in lexicographic order: the
\* first hit of the nested loops
firstHit(hits) ==
    CHOOSE h \in hits :
        \A g \in hits :
            \E k \in 1..(Len(h) + 1) :
                /\ \A n \in 1..(k - 1) : h[n] = g[n]
                /\ k <= Len(h) => h[k] < g[k]

\* the unit of a column match: 万元 when the header has it or it is the unit
\* hint, else 元 when the header has it
withColumnUnit(value, headerCell, unitHint) ==
    IF includes(headerCell, WAN_YUAN) \/ unitHint = WAN_YUAN
    THEN value \o WAN_YUAN
    ELSE IF includes(headerCell, YUAN) THEN value \o YUAN
    ELSE value

\* strategy 1: the pairs <<colIdx, rowIdx>> at which the column loop returns
columnHits(rows, labelPatterns) ==
    {h \in (1..Len(rows[1])) \X (2..Len(rows)) :
        /\ matchesLabel(rows[1][h[1]], labelPatterns)
        /\ h[1] <= Len(rows[h[2]])
        /\ reTest(rows[h[2]][h[1]], numericCellRegex)
        /\ rows[h[2]][h[1]] # <<"0">>
        /\ rows[h[2]][h[1]] # <<>>}

\* the unit of a row match
withRowUnit(value, cell, unitHint) ==
    IF /\ includes(cell, WAN_YUAN) \/ unitHint = WAN_YUAN
       /\ ~includes(value, YUAN)
       /\ ~includes(value, <<"WAN">>)
    THEN value \o WAN_YUAN
    ELSE value

\* strategy 2: the triples <<row, i, j>> at which the row loop returns
rowHits(rows, labelPatterns) ==
    {h \in (1..Len(rows)) \X (1..MaxCols) \X (1..MaxCols) :
        /\ h[2] < h[3]
        /\ h[3] <= Len(rows[h[1]])
        /\ matchesLabel(rows[h[1]][h[2]], labelPatterns)
        /\ reTest(rows[h[1]][h[3]], amountCellRegex)
        /\ rows[h[1]][h[3]] \notin {<<>>, <<"\\">>, <<"/">>}}

\* the value one table yields given the hits of the two strategies, NULL
\* when the loop goes on to the next table
tableMatch(rows, columnHit, rowHit, unitHint) ==
    IF Len(rows) < 2 THEN NULL
    ELSE IF columnHit # {}
    THEN withColumnUnit(rows[firstHit(columnHit)[2]][firstHit(columnHit)[1]],
                        rows[1][firstHit(columnHit)[1]], unitHint)
    ELSE IF rowHit # {}
    THEN withRowUnit(rows[firstHit(rowHit)[1]][firstHit(rowHit)[3]],
                     rows[firstHit(rowHit)[1]][firstHit(rowHit)[2]], unitHint)
    ELSE NULL

\* the loop over the tables from table t on
RECURSIVE extractFromTableFrom(_, _, _, _)
extractFromTableFrom(allTables, t, labelPatterns, unitHint) ==
    IF t > Len(allTables) THEN NULL
    ELSE IF tableMatch(rowsOf(allTables[t]),
                       IF Len(rowsOf(allTables[t])) < 2 THEN {}
                       ELSE columnHits(rowsOf(allTables[t]), labelPatterns),
                       rowHits(rowsOf(allTables[t]), labelPatterns),
                       unitHint) = NULL
    THEN extractFromTableFrom(allTables, t + 1, labelPatterns, unitHint)
    ELSE tableMatch(rowsOf(allTables[t]),
                    IF Len(rowsOf(allTables[t])) < 2 THEN {}
                    ELSE columnHits(rowsOf(allTables[t]), labelPatterns),
                    rowHits(rowsOf(allTables[t]), labelPatterns),
                    unitHint)

extractFromTable(allTables, labelPatterns, unitHint) ==
    extractFromTableFrom(allTables, 1, labelPatterns, unitHint)

\* a regular expression that is a literal string
Literal(chars) == << [k \in 1..Len(chars) |-> Rx({chars[k]}, 1, 1)] >>

\* the label patterns of the call for budget:
\* [/预算/, /最高限价/, /控制价/, /采购金额/]
BudgetPatterns ==
    <<Literal(<<"YU", "SUAN">>), Literal(<<"ZUI", "GAO", "XIAN", "JIA">>),
      Literal(<<"KONG", "ZHI", "JIA">>), Literal(<<"CAI", "GOU", "JIN", "E">>)>>

\* the inner markup of the cells: 预算, 预算(元), 91 inside a paragraph,
\* 91万元 and 0
CellBudget == <<"YU", "SUAN">>

CellBudgetYuan == <<"YU", "SUAN", "(", "YUAN", ")">>

CellNumber == <<"<p>", " ", "9", "1", " ", "</p>">>

CellAmount == <<"9", "1", "WAN", "YUAN">>

Cells ==
    {CellBudget, CellBudgetYuan, CellNumber, CellAmount, <<"0">>}

\* the rows of n cells
TableRows(n) == [1..n -> Cells]

\* the tables: two rows of the same width, a data row shorter than the
\* header, and three rows of one cell
Tables ==
    UNION { { <<header, data>> : header \in TableRows(n),
                                 data \in TableRows(n) } :
            n \in 1..MaxCols }
        \cup { <<header, data>> : header \in TableRows(2),
                                  data \in TableRows(1) }
        \cup { <<header, first, second>> :
                   header \in TableRows(1), first \in TableRows(1),
                   second \in TableRows(1) }

\* the markup: one table, or two tables of one column
TableInputs ==
    { <<t>> : t \in Tables }
        \cup { <<t, u>> :
                   t \in { <<h, d>> : h \in TableRows(1), d \in TableRows(1) },
                   u \in { <<h, d>> : h \in TableRows(1),
                                      d \in TableRows(1) } }

TableInit ==
    /\ tables \in TableInputs
    /\ tableValue = NotCalled
    /\ RunParked
    /\ CFParked
    /\ AppParked
    /\ StructParked
    /\ RiskParked
    /\ AnalysisParked

\* const fromTable = extractFromTable([/预算/, ...], '万元')
CallExtractFromTable ==
    /\ tableValue = NotCalled
    /\ tableValue' =
           [value |-> extractFromTable(tables, BudgetPatterns, WAN_YUAN)]
    /\ UNCHANGED <<tables, cfVars, runVars, appVars, structVars, riskVars, analysisVars>>

TableNext == CallExtractFromTable

SpecTable == TableInit /\ [][TableNext]_vars

----------------------------------------------------------------------------
(* Claims about extractFromTable *)

\* the unit the header gives: its own 万元 or 元, else the unit of the field
headerUnit(headerCell) ==
    IF includes(headerCell, WAN_YUAN) THEN WAN_YUAN
    ELSE IF includes(headerCell, YUAN) THEN YUAN
    ELSE WAN_YUAN

\* the markup is one table of one column: a header cell that matches a
\* budget label and below it an amount, with or without a unit
budgetColumn ==
    /\ Len(tables) = 1
    /\ Len(tables[1]) = 2
    /\ Len(tables[1][1]) = 1
    /\ Len(tables[1][2]) = 1
    /\ matchesLabel(cellText(tables[1][1][1]), BudgetPatterns)
    /\ reTest(cellText(tables[1][2][1]), amountCellRegex)
    /\ cellText(tables[1][2][1]) # <<"0">>

\* C20: for a table of one column with a header cell matching a budget label
\* and a data cell below it, extractFromTable with the budget patterns
\* returns the value with a unit: the cell itself when it has a unit ("91万元"
\* under "预算" gives "91万元"), otherwise the cell followed by the unit of
\* the header
C20_ColumnValueCarriesUnit ==
    tableValue # NotCalled /\ budgetColumn =>
        tableValue.value =
            IF includes(cellText(tables[1][2][1]), YUAN)
            THEN cellText(tables[1][2][1])
            ELSE cellText(tables[1][2][1])
                     \o headerUnit(cellText(tables[1][1][1]))

----------------------------------------------------------------------------
(* Step A: extractRiskCandidates *)

\* the characters of the entries of RISK_KEYWORDS
keywordText(keyword) ==
    CASE keyword = "feibiao" -> <<"FEI", "BIAO">>
      [] keyword = "wuxiao" -> <<"WU", "XIAO">>
      [] keyword = "jujue" -> <<"JU", "JUE">>
      [] keyword = "star" -> <<"STAR">>
      [] keyword = "triangle" -> <<"TRI">>
      [] keyword = "star2" -> <<"STAR2">>
      [] keyword = "triangle2" -> <<"TRI2">>
      [] keyword = "asterisk" -> <<"*">>
      [] keyword = "refmark" -> <<"REF">>
      [] keyword = "shizhixing" -> <<"SHI", "ZHI", "XING">>
      [] keyword = "foujue" -> <<"FOU", "JUE">>
      [] keyword = "bude" -> <<"BU", "DE">>
      [] keyword = "buyunxu" -> <<"BU", "YUN", "XU">>
      [] keyword = "jinzhi" -> <<"JIN", "ZHI">>
      [] keyword = "buyushouli" -> <<"BU", "YU", "SHOU", "LI">>
      [] keyword = "quxiaozige" -> <<"QU", "XIAO", "ZI", "GE">>
      [] keyword = "shixiao" -> <<"SHI", "XIAO">>

\* ['★', '▲', '☆', '△', '※', '*'], in the order matchedSymbol is searched
SYMBOLS == <<"star", "triangle", "star2", "triangle2", "refmark", "asterisk">>

SymbolChars == {keywordText(SYMBOLS[k])[1] : k \in 1..Len(SYMBOLS)}

\* /[★▲☆△※\*][^\n]*(?:[\n][^\n★▲☆△※\*]*)?/g
STAR_PATTERN ==
    << <<Rx(SymbolChars, 1, 1),
         [cls |-> {"\n"}, neg |-> TRUE, min |-> 0, max |-> Unbounded,
          at |-> "any"],
         Rx({"\n"}, 0, 1),
         [cls |-> {"\n"} \cup SymbolChars, neg |-> TRUE, min |-> 0,
          max |-> Unbounded, at |-> "any"]>> >>

\* plainText.match(STAR_PATTERN) || []: the matches from position from on
RECURSIVE starMatches(_, _)
starMatches(plainText, from) ==
    IF reExec(plainText, STAR_PATTERN, from).at = 0 THEN <<>>
    ELSE <<SubSeq(plainText, reExec(plainText, STAR_PATTERN, from).at,
                  reExec(plainText, STAR_PATTERN, from).end - 1)>>
             \o starMatches(plainText,
                            reExec(plainText, STAR_PATTERN, from).end)

\* [。；\n\r]
ParagraphBreaks == {"PERIOD", "SEMICOLON", "\n", "\r"}

\* plainText.split(/[。；\n\r]+/): the pieces between the runs of breaks
RECURSIVE split(_, _)
split(plainText, piece) ==
    IF plainText = <<>> THEN <<piece>>
    ELSE IF Head(plainText) \notin ParagraphBreaks
    THEN split(Tail(plainText), Append(piece, Head(plainText)))
    ELSE IF Len(plainText) > 1 /\ plainText[2] \in ParagraphBreaks
    THEN split(Tail(plainText), piece)
    ELSE <<piece>> \o split(Tail(plainText), <<>>)

\* candidates.push({text, chapterTitle, matchedKeyword}) with
\* seenTexts.add(text); acc holds candidates and seenTexts
pushCandidate(acc, text, chapterTitle, matchedKeyword) ==
    [candidates |->
         Append(acc.candidates,
                [text |-> text, chapterTitle |-> chapterTitle,
                 matchedKeyword |-> matchedKeyword]),
     seenTexts |-> acc.seenTexts \cup {text}]

\* the body of the loop over starMatches for the trimmed match
starStep(acc, text, chapterTitle) ==
    IF Len(text) > 5 /\ Len(text) < 500 /\ text \notin acc.seenTexts
    THEN pushCandidate(
             acc, text, chapterTitle,
             IF \E k \in 1..Len(SYMBOLS) : includes(text, keywordText(SYMBOLS[k]))
             THEN SYMBOLS[FirstIndex({k \in 1..Len(SYMBOLS) :
                                         includes(text, keywordText(SYMBOLS[k]))})]
             ELSE "star")
    ELSE acc

RECURSIVE starLoop(_, _, _, _)
starLoop(acc, matches, k, chapterTitle) ==
    IF k > Len(matches) THEN acc
    ELSE starLoop(starStep(acc, trim(matches[k]), chapterTitle), matches,
                  k + 1, chapterTitle)

\* the body of the loop over paragraphs for the trimmed paragraph: the
\* first keyword of RISK_KEYWORDS it includes is the matched keyword
paragraphStep(acc, trimmedPara, chapterTitle) ==
    IF trimmedPara \in acc.seenTexts THEN acc
    ELSE IF \E k \in 1..Len(RISK_KEYWORDS) :
                includes(trimmedPara, keywordText(RISK_KEYWORDS[k]))
    THEN pushCandidate(
             acc, trimmedPara, chapterTitle,
             RISK_KEYWORDS[FirstIndex({k \in 1..Len(RISK_KEYWORDS) :
                 includes(trimmedPara, keywordText(RISK_KEYWORDS[k]))})])
    ELSE acc

RECURSIVE paragraphLoop(_, _, _, _)
paragraphLoop(acc, paragraphs, k, chapterTitle) ==
    IF k > Len(paragraphs) THEN acc
    ELSE paragraphLoop(paragraphStep(acc, trim(paragraphs[k]), chapterTitle),
                       paragraphs, k + 1, chapterTitle)

\* the paragraphs of a chapter: the pieces with more than 10 characters
paragraphsOf(plainText) ==
    SelectSeq(split(plainText, <<>>), LAMBDA p : Len(trim(p)) > 10)

\* the body of the loop over doc.chapters for the chapter's plain text
chapterStep(acc, plainText, chapterTitle) ==
    paragraphLoop(starLoop(acc, starMatches(plainText, 1), 1, chapterTitle),
                  paragraphsOf(plainText), 1, chapterTitle)

RECURSIVE chapterLoop(_, _, _)
chapterLoop(acc, chapters, c) ==
    IF c > Len(chapters) THEN acc
    ELSE chapterLoop(
             chapterStep(acc,
                         SelectSeq(chapters[c].content,
                                   LAMBDA ch : ~IsTag(ch)),
                         chapters[c].title),
             chapters, c + 1)

extractRiskCandidates(chapters) ==
    chapterLoop([candidates |-> <<>>, seenTexts |-> {}], chapters, 1)
        .candidates

\* the clauses of the documents: a paragraph with 不得 and ★ in the middle
\* (投标人不得★提供虚假材料证明), a line that starts with ★, a paragraph
\* with 废标 and 无效, and a paragraph without a keyword
ClauseStarInside ==
    <<"TOU", "BIAO", "REN", "BU", "DE", "STAR", "TI", "GONG", "XU", "JIA",
      "CAI", "LIAO", "ZHENG", "MING">>

ClauseStarFirst ==
    <<"STAR", "BAO", "ZHENG", "JIN", "BI", "XU", "AN", "SHI", "DAO", "ZHANG",
      "QUE", "REN">>

ClauseTwoKeywords ==
    <<"WEI", "QIAN", "ZI", "DE", "WU", "XIAO", "BING", "AN", "FEI", "BIAO",
      "CHU", "LI">>

ClausePlain ==
    <<"BEN", "XIANG", "MU", "ZI", "JIN", "YI", "JING", "LUO", "SHI", "DAO",
      "WEI", "LE">>

Clauses == {ClauseStarInside, ClauseStarFirst, ClauseTwoKeywords, ClausePlain}

\* the contents of a chapter: up to MaxClauses clauses in one paragraph tag,
\* separated by a line break or by 。
RECURSIVE ChapterTexts(_)
ChapterTexts(n) ==
    IF n = 1 THEN Clauses
    ELSE ChapterTexts(n - 1) \cup
         { t \o <<sep>> \o c : t \in { u \in ChapterTexts(n - 1) :
                                         Len(u) > 14 * (n - 2) },
                               sep \in {"\n", "PERIOD"}, c \in Clauses }

RiskChapters(id, title) ==
    { Chapter(id, title, <<"<p>">> \o t \o <<"</p>">>) :
          t \in ChapterTexts(MaxClauses) }

\* the documents: one or two chapters
RiskDocs ==
    { <<c>> : c \in RiskChapters("chapter-0", <<"T", "1">>) }
        \cup { <<c, Chapter("chapter-1", <<"T", "2">>,
                             <<"<p>">> \o t \o <<"</p>">>)>> :
                   c \in RiskChapters("chapter-0", <<"T", "1">>),
                   t \in Clauses }

RiskInit ==
    /\ riskDoc \in RiskDocs
    /\ candidatesA = NotCalled
    /\ RunParked
    /\ CFParked
    /\ AppParked
    /\ StructParked
    /\ TableParked
    /\ AnalysisParked

CallExtractRiskCandidates ==
    /\ candidatesA = NotCalled
    /\ candidatesA' = [value |-> extractRiskCandidates(riskDoc)]
    /\ UNCHANGED <<riskDoc, cfVars, runVars, appVars, structVars, tableVars,
                   analysisVars>>

RiskNext == CallExtractRiskCandidates

SpecRisk == RiskInit /\ [][RiskNext]_vars

\* the candidates of the call, once it has returned
riskCandidates == IF candidatesA = NotCalled THEN <<>> ELSE candidatesA.value

\* the candidates taken from a paragraph of a chapter: those of the chapter
\* whose text is text of the paragraph
contributedBy(chapter, paragraph) ==
    {k \in 1..Len(riskCandidates) :
        /\ riskCandidates[k].chapterTitle = chapter.title
        /\ includes(paragraph, riskCandidates[k].text)}

paragraphSet(paragraphs) ==
    {trim(paragraphs[k]) : k \in 1..Len(paragraphs)}

noRepeatedText ==
    \A j, k \in 1..Len(riskCandidates) :
        riskCandidates[j].text = riskCandidates[k].text => j = k

\* C21: no two candidates of the returned list have the same text, and
\* each paragraph of each chapter contributes at most one candidate, also
\* when it holds several risk keywords or an emphasis symbol.
C21_OneCandidatePerParagraph ==
    /\ noRepeatedText
    /\ \A c \in 1..Len(riskDoc) :
         \A paragraph \in
               paragraphSet(paragraphsOf(
                   SelectSeq(riskDoc[c].content, LAMBDA ch : ~IsTag(ch)))) :
             Cardinality(contributedBy(riskDoc[c], paragraph)) <= 1

----------------------------------------------------------------------------
(* App: deep analysis runs, cancellation and the analysis cache *)

\* the null of doc, keyInfo, previousKeyInfoRef.current, a cache miss
Null == [isNull |-> TRUE]

\* abortControllerRef.current === null
NoController == [isNull |-> TRUE]

\* new AbortController(), of the run-th call of analyzeBidDocument
AbortController(run) == [isNull |-> FALSE, run |-> run]

\* content.charCodeAt(i), for the characters of the titles of the documents
charCodeAt(ch) ==
    CASE ch = "T" -> 84
      [] ch = "1" -> 49
      [] ch = "2" -> 50
      [] ch = "|" -> 124

\* ((hash << 5) - hash) + char; hash = hash & hash, on the two 16-bit halves
\* of the 32-bit value
hashStep(hash, char) ==
    [hi |-> (hash.hi * 31 + (hash.lo * 31 + char) \div 65536) % 65536,
     lo |-> (hash.lo * 31 + char) % 65536]

\* the signed value of the 32 bits
toInt32(hash) ==
    IF hash.hi >= 32768
    THEN (hash.hi - 65536) * 65536 + hash.lo
    ELSE hash.hi * 65536 + hash.lo

\* the loop of generateDocFingerprint over the characters of content
RECURSIVE hashFrom(_, _)
hashFrom(content, hash) ==
    IF content = <<>> THEN toInt32(hash)
    ELSE hashFrom(Tail(content), hashStep(hash, charCodeAt(Head(content))))

\* document.chapters.map(c => c.title).join('|')
RECURSIVE joinTitles(_)
joinTitles(chapters) ==
    IF chapters = <<>> THEN <<>>
    ELSE IF Len(chapters) = 1 THEN chapters[1].title
    ELSE chapters[1].title \o <<"|">> \o joinTitles(Tail(chapters))

\* `doc_${document.name}_${hash}`
generateDocFingerprint(document) ==
    [name |-> document.name,
     hash |-> hashFrom(joinTitles(document.chapters), [hi |-> 0, lo |-> 0])]

getCachedAnalysis(storage, fingerprint) ==
    IF fingerprint \in DOMAIN storage THEN storage[fingerprint] ELSE Null

saveAnalysisToCache(storage, fingerprint, result) ==
    [f \in DOMAIN storage \cup {fingerprint} |->
        IF f = fingerprint THEN result ELSE storage[f]]

\* the documents the user uploads
UploadA ==
    [name |-> "a.docx",
     chapters |-> <<Chapter("chapter-0", <<"T", "1">>, <<"<p>", "a", "</p>">>)>>]

UploadB ==
    [name |-> "b.docx",
     chapters |-> <<Chapter("chapter-0", <<"T", "1">>, <<"<p>", "b", "</p>">>),
                    Chapter("chapter-1", <<"T", "2">>, <<"<p>", "c", "</p>">>)>>]

Uploads == {UploadA, UploadB}

\* the KeyInformation a run resolves with, by the run and its document; run 0
\* is a run of an earlier session
ResultOf(run, document) ==
    [isNull |-> FALSE, run |-> run, name |-> document.name,
     resolved |-> FALSE]

\* the runs whose promise has not settled
inFlight == {r \in 1..Len(runs) : runs[r].pc = "pending"}

\* a run whose signal is aborted settles before the next event is handled:
\* abort() rejects the pending fetch
microtaskPending == \E r \in inFlight : r \in abortedSignals

\* <AnalyzingOverlay> is rendered, above every other control
overlayShown ==
    analysisState = "ANALYZING" /\ abortControllerRef # NoController

\* <AnalysisDashboard> is rendered
dashboardShown ==
    /\ state = "VIEWING"
    /\ showAnalysisPanel
    /\ keyInfoState # Null
    /\ analysisState = "COMPLETED"

AnalysisInit ==
    /\ state = "IDLE"
    /\ parsing = {}
    /\ appDoc = Null
    /\ analysisState = "IDLE"
    /\ keyInfoState = Null
    /\ showAnalysisPanel = FALSE
    /\ abortControllerRef = NoController
    /\ abortedSignals = {}
    /\ previousKeyInfoRef = Null
    /\ localStorage =
           saveAnalysisToCache(<<>>, generateDocFingerprint(UploadA),
                               ResultOf(0, UploadA))
    /\ runs = <<>>
    /\ cacheLog = <<>>
    /\ lastCall = NotCalled
    /\ shownAtStart = NullKeyInfo
    /\ lastCancel = NotCalled
    /\ RunParked
    /\ CFParked
    /\ AppParked
    /\ StructParked
    /\ TableParked
    /\ RiskParked

\* handleFileUpload up to await parseDocument(file), for the .docx file of
\* a document
HandleFileUpload(file) ==
    /\ state # "VIEWING"
    /\ ~overlayShown
    /\ ~microtaskPending
    /\ file \notin parsing
    /\ state' = "PARSING"
    /\ keyInfoState' = Null
    /\ showAnalysisPanel' = FALSE
    /\ analysisState' = "IDLE"
    /\ parsing' = parsing \cup {file}
    /\ UNCHANGED <<appDoc, abortControllerRef, abortedSignals,
                   previousKeyInfoRef, localStorage, runs, cacheLog,
                   shownAtStart>>
    /\ lastCall' = NotCalled
    /\ lastCancel' = NotCalled
    /\ UNCHANGED <<cfVars, runVars, appVars, structVars, tableVars, riskVars>>

\* handleFileUpload after parseDocument resolved
ParseResolved(parsedDoc) ==
    /\ parsedDoc \in parsing
    /\ ~microtaskPending
    /\ appDoc' = parsedDoc
    /\ state' = "VIEWING"
    /\ parsing' = parsing \ {parsedDoc}
    /\ UNCHANGED <<analysisState, keyInfoState, showAnalysisPanel,
                   abortControllerRef, abortedSignals, previousKeyInfoRef,
                   localStorage, runs, cacheLog, shownAtStart>>
    /\ lastCall' = NotCalled
    /\ lastCancel' = NotCalled
    /\ UNCHANGED <<cfVars, runVars, appVars, structVars, tableVars, riskVars>>

\* handleFileUpload after parseDocument rejected
ParseRejected(file) ==
    /\ file \in parsing
    /\ ~microtaskPending
    /\ state' = "ERROR"
    /\ parsing' = parsing \ {file}
    /\ UNCHANGED <<appDoc, analysisState, keyInfoState, showAnalysisPanel,
                   abortControllerRef, abortedSignals, previousKeyInfoRef,
                   localStorage, runs, cacheLog, shownAtStart>>
    /\ lastCall' = NotCalled
    /\ lastCancel' = NotCalled
    /\ UNCHANGED <<cfVars, runVars, appVars, structVars, tableVars, riskVars>>

\* the button of the error view: setState(AppState.IDLE)
Retry ==
    /\ state = "ERROR"
    /\ ~overlayShown
    /\ ~microtaskPending
    /\ state' = "IDLE"
    /\ UNCHANGED <<parsing, appDoc, analysisState, keyInfoState,
                   showAnalysisPanel, abortControllerRef, abortedSignals,
                   previousKeyInfoRef, localStorage, runs, cacheLog,
                   shownAtStart>>
    /\ lastCall' = NotCalled
    /\ lastCancel' = NotCalled
    /\ UNCHANGED <<cfVars, runVars, appVars, structVars, tableVars, riskVars>>

\* if (analysisState === AnalysisState.ANALYZING) return
ignoresClick_never(currentState) == FALSE

ignoresClick(currentState) == currentState = "ANALYZING"

\* handleDeepAnalysis(forceRefresh) up to await analyzeBidDocument: activeKey
\* is whether getActiveApiKey() gave a key, useCache the answer to
\* window.confirm
HandleDeepAnalysis(forceRefresh, activeKey, useCache) ==
    /\ state = "VIEWING"
    /\ appDoc # Null
    /\ ~microtaskPending
    /\ IF ignoresClick(analysisState)
       THEN /\ lastCall' = [inFlight |-> Cardinality(inFlight),
                            started |-> FALSE]
            /\ UNCHANGED <<analysisState, keyInfoState, showAnalysisPanel,
                           abortControllerRef, previousKeyInfoRef, runs,
                           cacheLog, shownAtStart>>
       ELSE IF keyInfoState # Null /\ ~forceRefresh
       THEN /\ abortControllerRef' = NoController
            /\ analysisState' = "COMPLETED"
            /\ showAnalysisPanel' = TRUE
            /\ lastCall' = [inFlight |-> Cardinality(inFlight),
                            started |-> FALSE]
            /\ UNCHANGED <<keyInfoState, previousKeyInfoRef, runs, cacheLog, shownAtStart>>
       ELSE IF ~activeKey
       THEN /\ lastCall' = [inFlight |-> Cardinality(inFlight),
                            started |-> FALSE]
            /\ UNCHANGED <<analysisState, keyInfoState, showAnalysisPanel,
                           abortControllerRef, previousKeyInfoRef, runs,
                           cacheLog, shownAtStart>>
       ELSE IF /\ ~forceRefresh
               /\ getCachedAnalysis(localStorage,
                                    generateDocFingerprint(appDoc)) # Null
               /\ useCache
       THEN /\ keyInfoState' =
                   getCachedAnalysis(localStorage,
                                     generateDocFingerprint(appDoc))
            /\ analysisState' = "COMPLETED"
            /\ showAnalysisPanel' = TRUE
            /\ lastCall' = [inFlight |-> Cardinality(inFlight),
                            started |-> FALSE]
            /\ UNCHANGED <<abortControllerRef, previousKeyInfoRef, runs,
                           cacheLog, shownAtStart>>
       ELSE /\ Len(runs) < MaxRuns
            /\ previousKeyInfoRef' =
                   IF keyInfoState # Null THEN keyInfoState
                   ELSE previousKeyInfoRef
            /\ abortControllerRef' = AbortController(Len(runs) + 1)
            /\ analysisState' = "ANALYZING"
            /\ showAnalysisPanel' = TRUE
            /\ runs' = Append(runs,
                              [doc |-> appDoc,
                               fingerprint |-> generateDocFingerprint(appDoc),
                               pc |-> "pending"])
            /\ cacheLog' =
                   IF forceRefresh THEN cacheLog
                   ELSE Append(cacheLog,
                               [op |-> "read", run |-> Len(runs) + 1,
                                fingerprint |->
                                    generateDocFingerprint(appDoc)])
            /\ lastCall' = [inFlight |-> Cardinality(inFlight),
                            started |-> TRUE]
            /\ shownAtStart' = keyInfoState
            /\ UNCHANGED keyInfoState
    /\ UNCHANGED <<state, parsing, appDoc, abortedSignals, localStorage>>
    /\ lastCancel' = NotCalled
    /\ UNCHANGED <<cfVars, runVars, appVars, structVars, tableVars, riskVars>>

\* the click on the button of <AnalyzingOverlay>
CancelDeepAnalysis ==
    /\ overlayShown
    /\ ~microtaskPending
    /\ abortedSignals' =
           IF abortControllerRef # NoController
           THEN abortedSignals \cup {abortControllerRef.run}
           ELSE abortedSignals
    /\ abortControllerRef' = NoController
    /\ IF previousKeyInfoRef # Null
       THEN /\ keyInfoState' = previousKeyInfoRef
            /\ analysisState' = "COMPLETED"
       ELSE /\ analysisState' = "IDLE"
            /\ UNCHANGED keyInfoState
    /\ showAnalysisPanel' = FALSE
    /\ lastCancel' = [run |-> abortControllerRef.run,
                      displayed |-> shownAtStart,
                      keyInfo |-> keyInfoState']
    /\ UNCHANGED <<state, parsing, appDoc, previousKeyInfoRef, localStorage,
                   runs, cacheLog, shownAtStart>>
    /\ lastCall' = NotCalled
    /\ UNCHANGED <<cfVars, runVars, appVars, structVars, tableVars, riskVars>>

\* onClose of <AnalysisDashboard>
CloseAnalysisPanel ==
    /\ dashboardShown
    /\ ~microtaskPending
    /\ showAnalysisPanel' = FALSE
    /\ analysisState' =
           IF analysisState = "ANALYZING" THEN "IDLE" ELSE analysisState
    /\ UNCHANGED <<state, parsing, appDoc, keyInfoState, abortControllerRef,
                   abortedSignals, previousKeyInfoRef, localStorage, runs,
                   cacheLog, shownAtStart>>
    /\ lastCall' = NotCalled
    /\ lastCancel' = NotCalled
    /\ UNCHANGED <<cfVars, runVars, appVars, structVars, tableVars, riskVars>>

\* onConflictResolve of <AnalysisDashboard>: handleConflictResolve gives
\* keyInfo a new value
ResolveConflict ==
    /\ dashboardShown
    /\ ~microtaskPending
    /\ keyInfoState' = [keyInfoState EXCEPT !.resolved = TRUE]
    /\ UNCHANGED <<state, parsing, appDoc, analysisState, showAnalysisPanel,
                   abortControllerRef, abortedSignals, previousKeyInfoRef,
                   localStorage, runs, cacheLog, shownAtStart>>
    /\ lastCall' = NotCalled
    /\ lastCancel' = NotCalled
    /\ UNCHANGED <<cfVars, runVars, appVars, structVars, tableVars, riskVars>>

\* the settlements of analyzeBidDocument(doc, activeKey, signal): it rejects
\* with AbortError exactly when the signal is aborted
Settlements(run) ==
    IF run \in abortedSignals THEN {"AbortError"} ELSE {"result", "TypeError"}

\* abortControllerRef.current?.signal.aborted
currentSignalAborted ==
    /\ abortControllerRef # NoController
    /\ abortControllerRef.run \in abortedSignals

\* whether the try block reaches saveAnalysisToCache(fingerprint, result)
reachesSave_always(settlement, isAborted) == TRUE

reachesSave(settlement, isAborted) == settlement = "result" /\ ~isAborted

\* finally { abortControllerRef.current = null }
finallyRef_keep(current) == current

finallyRef(current) == NoController

\* handleDeepAnalysis from the settlement of await analyzeBidDocument on
SettleRun(run, settlement) ==
    /\ run \in inFlight
    /\ settlement \in Settlements(run)
    /\ run \notin abortedSignals => ~microtaskPending
    /\ runs' = [runs EXCEPT ![run].pc = settlement]
    /\ IF settlement = "result" /\ ~currentSignalAborted
       THEN /\ keyInfoState' = ResultOf(run, runs[run].doc)
            /\ analysisState' = "COMPLETED"
            /\ previousKeyInfoRef' = Null
       ELSE IF settlement = "AbortError" /\ previousKeyInfoRef # Null
       THEN /\ keyInfoState' = previousKeyInfoRef
            /\ analysisState' = "COMPLETED"
            /\ UNCHANGED previousKeyInfoRef
       ELSE IF settlement = "TypeError"
       THEN /\ analysisState' = "ERROR"
            /\ UNCHANGED <<keyInfoState, previousKeyInfoRef>>
       ELSE UNCHANGED <<keyInfoState, analysisState, previousKeyInfoRef>>
    /\ IF reachesSave(settlement, currentSignalAborted)
       THEN /\ localStorage' =
                   saveAnalysisToCache(localStorage, runs[run].fingerprint,
                                       ResultOf(run, runs[run].doc))
            /\ cacheLog' = Append(cacheLog,
                                  [op |-> "write", run |-> run,
                                   fingerprint |-> runs[run].fingerprint])
       ELSE UNCHANGED <<localStorage, cacheLog>>
    /\ abortControllerRef' = finallyRef(abortControllerRef)
    /\ UNCHANGED <<state, parsing, appDoc, showAnalysisPanel, abortedSignals,
                   shownAtStart>>
    /\ lastCall' = NotCalled
    /\ lastCancel' = NotCalled
    /\ UNCHANGED <<cfVars, runVars, appVars, structVars, tableVars, riskVars>>

Settled == \E run \in 1..MaxRuns, settlement \in {"result", "TypeError", "AbortError"} :
    SettleRun(run, settlement)

AnalysisNext ==
    \/ \E file \in Uploads : HandleFileUpload(file)
    \/ \E parsedDoc \in Uploads : ParseResolved(parsedDoc)
    \/ \E file \in Uploads : ParseRejected(file)
    \/ Retry
    \/ \E forceRefresh, activeKey, useCache \in BOOLEAN :
           HandleDeepAnalysis(forceRefresh, activeKey, useCache)
    \/ CancelDeepAnalysis
    \/ CloseAnalysisPanel
    \/ ResolveConflict
    \/ Settled

SpecAnalysis == AnalysisInit /\ [][AnalysisNext]_vars

\* the oracle request of a run resolves, fails or is aborted in the end
SpecAnalysisFair == SpecAnalysis /\ WF_vars(Settled)

----------------------------------------------------------------------------
(* Claims about the analysis runs of the App *)

\* C22: at any time at most one analysis run is in flight; a call of
\* handleDeepAnalysis that finds a run in flight starts no run, and so
\* issues no second oracle request.
C22_OneRunInFlight ==
    /\ Cardinality(inFlight) <= 1
    /\ (lastCall # NotCalled /\ lastCall.inFlight > 0) => ~lastCall.started

\* handleDeepAnalysis was called while a run was in flight
C22_Witness ==
    /\ lastCall # NotCalled
    /\ lastCall.inFlight > 0
    /\ Cardinality(inFlight) = 1

\* the runs that were cancelled: abort() is called by cancelDeepAnalysis only
cancelledRuns == abortedSignals

\* C23: after a cancellation the keyInfo displayed is the one that was
\* displayed when the cancelled run started (none if there was none), and
\* the result of a cancelled run is never displayed.
C23_CancelRestoresDisplayed ==
    /\ lastCancel # NotCalled => lastCancel.keyInfo = lastCancel.displayed
    /\ keyInfoState # Null => keyInfoState.run \notin cancelledRuns

\* the half of C23 about the result of the cancelled run
cancelledResultNotShown ==
    keyInfoState # Null => keyInfoState.run \notin cancelledRuns

\* the entries of the cache log that are writes
cacheWrites == {k \in 1..Len(cacheLog) : cacheLog[k].op = "write"}

\* C29: every write of the analysis cache is made by a run that completed
\* with a result and was not cancelled, is the only write of that run, is
\* made under the fingerprint of the document the run analysed, and comes
\* after every cache read of that run.
C29_CacheWrittenOnSuccess ==
    \A k \in cacheWrites :
        /\ runs[cacheLog[k].run].pc = "result"
        /\ cacheLog[k].run \notin cancelledRuns
        /\ \A j \in cacheWrites : cacheLog[j].run = cacheLog[k].run => j = k
        /\ cacheLog[k].fingerprint
               = generateDocFingerprint(runs[cacheLog[k].run].doc)
        /\ \A j \in 1..Len(cacheLog) :
               (cacheLog[j].op = "read" /\ cacheLog[j].run = cacheLog[k].run)
                   => j < k

\* a run read the cache and wrote it, another run was cancelled and another
\* document is shown than the one written
C29_Witness ==
    /\ \E k \in cacheWrites :
           /\ \E j \in 1..Len(cacheLog) :
                  cacheLog[j].op = "read" /\ cacheLog[j].run = cacheLog[k].run
           /\ appDoc # runs[cacheLog[k].run].doc
    /\ cancelledRuns # {}

\* C30: every started run leaves the ANALYZING state in the end, for
\* COMPLETED, ERROR or IDLE, with the abort controller released, so that
\* handleDeepAnalysis can start a run again.
C30_RunLeavesAnalyzing ==
    (analysisState = "ANALYZING")
        ~> (/\ analysisState \in {"COMPLETED", "ERROR", "IDLE"}
            /\ abortControllerRef = NoController
            /\ inFlight = {})

\* a run was started and cancelled, a later run completed, and no run is left
C30_Witness ==
    /\ \E c \in cancelledRuns :
           \E r \in 1..Len(runs) : c < r /\ runs[r].pc = "result"
    /\ analysisState # "ANALYZING"
    /\ abortControllerRef = NoController
    /\ inFlight = {}

----------------------------------------------------------------------------
(* Claims about the chapter-type selection *)

\* the headings of a type in the document
occurrencesOfType(type) ==
    Cardinality({i \in 1..Len(bodyChildren) :
        /\ Len(bodyChildren[i].text) > 2 + Len(typeWord(type))
        /\ bodyChildren[i].text[1] = "DI"
        /\ SubSeq(bodyChildren[i].text, 3, 2 + Len(typeWord(type)))
               = typeWord(type)})

\* the types with three occurrences or more and the greatest count among
\* those, in the order 章, 部分, 篇
tiedCandidates ==
    SelectSeq(<<"ZHANG", "BUFEN", "PIAN">>,
              LAMBDA t :
                  /\ occurrencesOfType(t) >= 3
                  /\ \A u \in ChapterTypes :
                         occurrencesOfType(u) <= occurrencesOfType(t))

\* C24: the selection returns 章 whenever 章 occurs twice or more; otherwise
\* the type with three occurrences or more and the strictly greatest count;
\* on a tie at the greatest count the candidate chosen by the answer, and
\* the first tied candidate when the answer is missing or out of range; 章
\* when no type occurs three times. The result is one of 章, 部分, 篇.
C24_SelectedType ==
    activeChapterType # NotCalled =>
        /\ activeChapterType.value \in ChapterTypes
        /\ activeChapterType.value =
               IF occurrencesOfType("ZHANG") >= 2 THEN "ZHANG"
               ELSE IF tiedCandidates = <<>> THEN "ZHANG"
               ELSE IF Len(tiedCandidates) = 1 THEN tiedCandidates[1]
               ELSE IF activeChapterType.choiceIndex \in
                           0..(Len(tiedCandidates) - 1)
               THEN tiedCandidates[activeChapterType.choiceIndex + 1]
               ELSE tiedCandidates[1]

\* 部分 and 篇 tie while 章 occurs once, and the answer is out of range
C24_Witness ==
    /\ activeChapterType # NotCalled
    /\ occurrencesOfType("ZHANG") = 1
    /\ Len(tiedCandidates) = 2
    /\ activeChapterType.choiceIndex = 2
    /\ activeChapterType.value = "BUFEN"

----------------------------------------------------------------------------
(* Claims about repeated headings and the table-of-contents cross-check *)

\* the markup of the content nodes that follow a heading of the title, up to
\* the next heading
RECURSIVE contentUnderTitle(_, _, _, _)
contentUnderTitle(children, heads, title, i) ==
    IF i > Len(children) THEN <<>>
    ELSE (IF /\ i \notin heads
             /\ \E h \in heads :
                    /\ h < i
                    /\ \A g \in heads : g < i => g <= h
                    /\ normalizeTitle(textOf(children[h])) = title
          THEN outerHTML(children[i]) ELSE <<>>)
         \o contentUnderTitle(children, heads, title, i + 1)

\* a heading repeats the title of an earlier heading, and a heading of
\* another title lies between the two
repeatedAcross(children, heads) ==
    \E i, j, k \in heads :
        /\ i < j /\ j < k
        /\ normalizeTitle(textOf(children[i]))
               = normalizeTitle(textOf(children[k]))
        /\ normalizeTitle(textOf(children[i]))
               # normalizeTitle(textOf(children[j]))

\* C25: when a heading repeats the normalized title of an accepted chapter,
\* the repeat makes no chapter and the content nodes that follow it are
\* appended to the chapter of that title, also when another chapter was
\* accepted between the two occurrences: the content of a chapter is the
\* content that follows the headings of its title.
C25_RepeatAccruesToSameTitle ==
    structured /\ plainDocument =>
        \A heads \in {headingIndices(bodyChildren, {},
                                     chapterTypeRegexMap["ZHANG"])} :
            \A k \in 1..Len(nonFront(parsed.chapters)) :
                nonFront(parsed.chapters)[k].content
                    = contentUnderTitle(
                          bodyChildren, heads,
                          normalizeTitle(nonFront(parsed.chapters)[k].title),
                          1)

\* the same for the documents in which no other heading lies between a
\* heading and its repeat
repeatAccruesWhenAdjacent ==
    structured /\ plainDocument =>
        \A heads \in {headingIndices(bodyChildren, {},
                                     chapterTypeRegexMap["ZHANG"])} :
            ~repeatedAcross(bodyChildren, heads) =>
                \A k \in 1..Len(nonFront(parsed.chapters)) :
                    nonFront(parsed.chapters)[k].content
                        = contentUnderTitle(
                              bodyChildren, heads,
                              normalizeTitle(
                                  nonFront(parsed.chapters)[k].title),
                              1)

\* contentFilteredChapters of the document
contentFilteredChaptersOf(children, chapterRegex, tocIndices) ==
    SelectSeq(
        wholeDocumentFallback(
            walk([chapters |-> <<>>, currentChapter |-> 0, seenTitles |-> {}],
                 children, 1, tocIndices, chapterRegex).chapters,
            htmlOf(children)),
        keptByContent)

\* sourceChapters, the continuity-validated chapters, of the kept chapters
sourceChaptersFrom(chaptersWithNum) ==
    sourceChaptersOf(chaptersWithNum,
                     continuousFrom(chaptersWithNum, 1, <<>>, 1))

\* the chapter is in the list
inList(chapters, c) == \E k \in 1..Len(chapters) : chapters[k] = c

\* an entry of the list of the table of contents matches the chapter
confirmedByToc(tocChapterTitles, c) ==
    \E t \in 1..Len(tocChapterTitles) :
        tocTitleMatches(normalizeTitleForMatch(c.title),
                        normalizeTitleForMatch(tocChapterTitles[t]))

\* C26: a kept chapter whose number cannot be extracted from its title is
\* left out of the continuity validation, but is in the final chapter list
\* when the list of the table of contents has at least 3 entries and one of
\* them matches the chapter.
C26_UnnumberedConfirmedByToc ==
    structured =>
        \A toc \in {tocScan(bodyChildren, 1, {}, <<>>)} :
            Len(toc.tocChapterTitles) >= 3 =>
                \A kept \in {contentFilteredChaptersOf(
                                 bodyChildren,
                                 chapterTypeRegexMap[activeChapterType.value],
                                 toc.tocIndices)} :
                    \A k \in 1..Len(kept) :
                        /\ kept[k].id # INTRO_ID
                        /\ getChapterNumber(kept[k].title) = NO_NUMBER
                        /\ confirmedByToc(toc.tocChapterTitles, kept[k])
                        => /\ ~inList(sourceChaptersFrom(chaptersWithNumOf(
                                          nonFront(kept))), kept[k])
                           /\ inList(parsed.chapters, kept[k])

\* the half of C26 about the continuity validation: a kept chapter without
\* a number is not among the continuity-validated chapters
unnumberedNotValidated ==
    structured =>
        \A toc \in {tocScan(bodyChildren, 1, {}, <<>>)} :
            \A kept \in {contentFilteredChaptersOf(
                             bodyChildren,
                             chapterTypeRegexMap[activeChapterType.value],
                             toc.tocIndices)} :
                \A k \in 1..Len(kept) :
                    /\ kept[k].id # INTRO_ID
                    /\ getChapterNumber(kept[k].title) = NO_NUMBER
                    => /\ ~inList(sourceChaptersFrom(chaptersWithNumOf(
                                      nonFront(kept))), kept[k])
                       /\ ~inList(parsed.chapters, kept[k])

\* the first chapter of the list that matches the entry, 0 for none
matchOfEntry(tocTitle, chapters) ==
    IF \E c \in 1..Len(chapters) :
           tocTitleMatches(normalizeTitleForMatch(chapters[c].title),
                           normalizeTitleForMatch(tocTitle))
    THEN CHOOSE c \in 1..Len(chapters) :
             /\ tocTitleMatches(normalizeTitleForMatch(chapters[c].title),
                                normalizeTitleForMatch(tocTitle))
             /\ \A d \in 1..(c - 1) :
                    ~tocTitleMatches(
                         normalizeTitleForMatch(chapters[d].title),
                         normalizeTitleForMatch(tocTitle))
    ELSE 0

\* the entries that find a matching chapter
matchingEntries(tocChapterTitles, chapters) ==
    {t \in 1..Len(tocChapterTitles) :
        matchOfEntry(tocChapterTitles[t], chapters) # 0}

\* the matched chapters in the order of the entries that match them first
matchedInTocOrder(tocChapterTitles, chapters) ==
    [k \in 1..Cardinality({matchOfEntry(tocChapterTitles[t], chapters) :
                              t \in matchingEntries(tocChapterTitles,
                                                    chapters)}) |->
        chapters[matchOfEntry(
            tocChapterTitles[
                ascending({t \in matchingEntries(tocChapterTitles, chapters) :
                    \A u \in 1..(t - 1) :
                        matchOfEntry(tocChapterTitles[u], chapters)
                            # matchOfEntry(tocChapterTitles[t], chapters)})[k]],
            chapters)]]

\* the list has no chapter twice and only chapters of the other list
duplicateFreeSubset(list, chapters) ==
    /\ \A i, j \in 1..Len(list) : list[i] = list[j] => i = j
    /\ \A i \in 1..Len(list) : inList(chapters, list[i])

----------------------------------------------------------------------------
(* Claims about the choice of the slices *)

\* the chapters of d the keyword-and-exclusion match of a role accepts
keywordChapters(d, role) ==
    {i \in 1..Len(d.chapters) :
        /\ \A e \in 1..Len(EXCLUDE_KEYWORDS[role]) :
               ~includes(d.chapters[i].title, EXCLUDE_KEYWORDS[role][e])
        /\ smartMatch(d.chapters[i].title, CHAPTER_KEYWORDS[role])}

\* the chapters of d whose title is the title
exactChapters(d, title) ==
    {i \in 1..Len(d.chapters) : d.chapters[i].title = title}

\* the chapters of d that match the title once numbering is stripped
strippedChapters(d, title) ==
    {i \in 1..Len(d.chapters) :
        noNumberMatch(d.chapters[i].title,
                      stripNumbering(removeWhitespace(title)))}

\* the chapters of d that hold at least half of the core words of the title
coreWordChapters(d, title) ==
    {i \in 1..Len(d.chapters) :
        coreWordMatch(d.chapters[i].title,
                      coreWords(stripNumbering(removeWhitespace(title))))}

\* the content of the first chapter of the set in document order
firstContent(d, set) == d.chapters[FirstIndex(set)].content

\* the slice the title resolves to: exact first, stripped second, core
\* words third, null for none
resolvedSlice(d, title) ==
    IF exactChapters(d, title) # {}
    THEN firstContent(d, exactChapters(d, title))
    ELSE IF strippedChapters(d, title) # {}
    THEN firstContent(d, strippedChapters(d, title))
    ELSE IF coreWordChapters(d, title) # {}
    THEN firstContent(d, coreWordChapters(d, title))
    ELSE UNDEFINED

sliceField(role) ==
    CASE role = "scoring" -> "scoringTableHtml"
      [] role = "technical" -> "technicalChapterHtml"
      [] role = "format" -> "formatChapterHtml"

\* the title the oracle's reply names for the role, null for none
mappedTitle(role) == PropChars(aiMappingOf(aiResult.value), role)

\* C28: for each role the slice is the content of the first chapter in
\* document order that the keyword-and-exclusion match accepts; the
\* oracle's chapterMapping decides only when no chapter is accepted, and
\* the title it names is resolved by the exact title first, the title
\* without numbering second, at least half of the core words third, and
\* to null when none of the three matches.
C28_SliceChoice ==
    (pc = "done" /\ outcome.kind = "return") =>
        \A role \in Roles :
            outcome.value[sliceField(role)] =
                IF keywordChapters(doc, role) # {}
                THEN firstContent(doc, keywordChapters(doc, role))
                ELSE IF Truthy(mappedTitle(role))
                THEN resolvedSlice(doc, mappedTitle(role))
                ELSE UNDEFINED

\* C28 witness: no chapter is accepted by keyword for scoring or technical;
\* the title named for scoring is the exact title of a chapter that comes
\* after a chapter matching it without numbering, the title named for
\* technical matches a chapter without numbering that comes after a chapter
\* holding half of its core words, and the later chapter is returned each
\* time.
C28_Witness ==
    /\ pc = "done" /\ outcome.kind = "return"
    /\ keywordChapters(doc, "scoring") = {}
    /\ keywordChapters(doc, "technical") = {}
    /\ Truthy(mappedTitle("scoring"))
    /\ Truthy(mappedTitle("technical"))
    /\ \E i \in exactChapters(doc, mappedTitle("scoring")) :
           /\ \E j \in strippedChapters(doc, mappedTitle("scoring")) : j < i
           /\ outcome.value.scoringTableHtml = doc.chapters[i].content
    /\ exactChapters(doc, mappedTitle("technical")) = {}
    /\ \E i \in strippedChapters(doc, mappedTitle("technical")) :
           /\ \A k \in strippedChapters(doc, mappedTitle("technical")) : i <= k
           /\ \E j \in coreWordChapters(doc, mappedTitle("technical")) : j < i
           /\ outcome.value.technicalChapterHtml = doc.chapters[i].content

\* a chapter is accepted by keyword for a role and the oracle names, for the
\* same role, a title that resolves to another chapter
keywordBeforeMapping ==
    \E role \in Roles :
        /\ pc = "done" /\ outcome.kind = "return"
        /\ keywordChapters(doc, role) # {}
        /\ Truthy(mappedTitle(role))
        /\ resolvedSlice(doc, mappedTitle(role))
               \notin {UNDEFINED, outcome.value[sliceField(role)]}

\* the title the oracle names matches no chapter and the slice is null
unresolvedMapping ==
    \E role \in Roles :
        /\ pc = "done" /\ outcome.kind = "return"
        /\ Truthy(mappedTitle(role))
        /\ exactChapters(doc, mappedTitle(role)) = {}
        /\ strippedChapters(doc, mappedTitle(role)) = {}
        /\ coreWordChapters(doc, mappedTitle(role)) = {}
        /\ outcome.value[sliceField(role)] = UNDEFINED

====
